---- MODULE Spec2Model ----
(***************************************************************************)
(* A model of diakit: the seeded diagram generator                         *)
(* (src/utils/diagram-generator.ts), the state interpolator and the        *)
(* animation loop of the canvas component (src/components/DiagramCanvas).  *)
(*                                                                         *)
(* Numbers.  The program computes in IEEE doubles; the model computes in   *)
(* fixed point.  A value in [0,1] (an RNG draw, a probability parameter)   *)
(* is the numerator k of k/GridDen.  Lengths are whole canvas units, each  *)
(* formula rounded down once at its end.  Animation progress is the        *)
(* numerator of k/PDen.                                                    *)
(***************************************************************************)
EXTENDS Integers, Sequences, FiniteSets, TLC

VARIABLES
  sinFrac,      \* the table s |-> frac(sin(s) * 10000), fixed for a behaviour
  rng,          \* the SeededRandom object of the latest generateDiagram call
  history,      \* the generateDiagram calls made so far, oldest first
  stA, stB,     \* inputs of interpolateStates (interpolator harness)
  prog,         \* progress handed to interpolateStates, numerator over EDen
  interp,       \* what interpolateStates returned
  params,       \* DiagramCanvas props.params  [ref, value]; <<>> before mount
  currentState, \* useState currentState, latest value set  [ref, state]
  targetState,  \* useState targetState, latest value set   [ref, state]
  rendered,     \* the params, currentState, targetState the latest render saw
  progressRef,  \* progressRef.current, numerator over PDen
  frames,       \* requested animation frames, oldest first, each with its
                \* callback's closure and whether animationFrameRef holds its id
  observer,     \* what onStateChange last delivered (App's currentState)
  canvas,       \* what drawDiagram last drew
  nextRef,      \* next object identity to hand out
  lastStep,     \* bookkeeping of the latest step, for the properties
  panel,        \* the currentState prop ControlPanel's latest render saw
  downloads,    \* the documents downloadSVG handed to the browser, oldest first
  errors,       \* the number of console.error reports of downloadSVG
  scene,        \* the DiagramState handed to the two renderers
  sceneParams,  \* the params handed to the two renderers
  lineDash,     \* the canvas context's line dash, kept from pass to pass
  raster,       \* what drawDiagram did to the canvas, in order
  vector,       \* the elements of the document generateSvgFromDiagramState built
  shrink        \* the label autoshrink loop of one node: its locals and position

vars == <<sinFrac, rng, history, stA, stB, prog, interp,
          params, currentState, targetState, rendered, progressRef, frames,
          observer, canvas, nextRef, lastStep, panel, downloads, errors,
          scene, sceneParams, lineDash, raster, vector, shrink>>

genVars == <<rng, history>>
interpVars == <<stA, stB, prog, interp>>
appVars == <<panel, downloads, errors>>
animVars == <<params, currentState, targetState, rendered, progressRef, frames,
              observer, canvas, nextRef, lastStep, appVars>>
renderVars == <<scene, sceneParams, lineDash, raster, vector, shrink>>

(***************************************************************************)
(* Bounds of the model.                                                    *)
(***************************************************************************)
GridDen == 3
Period == 5
MaxNodes == 4
MaxCalls == 2
MaxLen == 2
PDen == 4
MaxChanges == 2
MaxLabel == 2
MaxExports == 2

Max(a, b) == IF a >= b THEN a ELSE b
Min(a, b) == IF a <= b THEN a ELSE b

\* A string is the sequence of its characters; undefined is no string.
Undefined == <<"undefined">>
Truthy(s) == s # Undefined /\ s # <<>>
NaN == 0 - 1000000

(***************************************************************************)
(* SeededRandom.  Math.sin is a fixed function the model cannot compute:   *)
(* sinFrac stands for it, one arbitrary table per behaviour.               *)
(***************************************************************************)
\* Mutant: one generator object shared by all calls instead of a fresh one.
SeededRandomShared(seed) == rng

SeededRandom(seed) == [seed |-> seed]

\* x - Math.floor(x) for x = Math.sin(s) * 10000
Sin10000Frac(s) == sinFrac[s % Period]

\* random(): the value returned and the object afterwards (seed++)
random(r) == [value |-> Sin10000Frac(r.seed), rng |-> [seed |-> r.seed + 1]]

\* The value of the (n+1)-th call of random() from r on, and r after n calls.
Nth(r, n) == random([seed |-> r.seed + n]).value
After(r, n) == [seed |-> r.seed + n]

\* range(min, max) = min + random() * (max - min), for the draw k
range(k, lo, hi) == lo + (k * (hi - lo)) \div GridDen

(***************************************************************************)
(* generateDiagram: node placement.                                        *)
(***************************************************************************)
margin == 80

\* (random() - 0.5) * span * fraction
Centered(k, span, f) == ((2 * k - GridDen) * span * f) \div (2 * GridDen * GridDen)

\* The body of the node loop: six draws, in the order jitterX, jitterY,
\* spreadX, spreadY, baseWidth, baseHeight.
MakeNode(p, i, r0) ==
  LET width  == p.canvasWidth
      height == p.canvasHeight
      nodeCount == p.nodeCount
      spanX == width - 2 * margin
      spanY == height - 2 * margin
      baseX == margin + (spanX * i) \div nodeCount
      baseY == margin + spanY \div 2
      jitterX == Centered(Nth(r0, 0), spanX, p.positionJitter)
      jitterY == Centered(Nth(r0, 1), spanY, p.positionJitter)
      spreadX == Centered(Nth(r0, 2), spanX, p.layoutSpread)
      spreadY == Centered(Nth(r0, 3), spanY, p.layoutSpread)
      biasX == ((2 * p.horizontalBias - GridDen) * spanX * 3) \div (2 * GridDen * 10)
      biasY == ((2 * p.verticalBias - GridDen) * spanY * 3) \div (2 * GridDen * 10)
      x == baseX + jitterX + spreadX + biasX
      y == baseY + jitterY + spreadY + biasY
      baseWidth ==
        range(Nth(r0, 4), p.nodeMinWidth,
              p.nodeMinWidth
                + ((p.nodeMaxWidth - p.nodeMinWidth) * p.sizeVariation) \div GridDen)
      baseHeight ==
        range(Nth(r0, 5), p.nodeMinHeight,
              p.nodeMinHeight
                + ((p.nodeMaxHeight - p.nodeMinHeight) * p.sizeVariation) \div GridDen)
      nodeWidth  == (baseWidth * p.nodeScale) \div 10
      nodeHeight == (baseHeight * p.nodeScale) \div 10
  IN  [node |-> [id |-> i,
                 x |-> Max(margin, Min(width - margin - nodeWidth, x)),
                 y |-> Max(margin, Min(height - margin - nodeHeight, y)),
                 width |-> nodeWidth,
                 height |-> nodeHeight,
                 label |-> IF i + 1 <= Len(p.nodeTitles) /\ Truthy(p.nodeTitles[i + 1])
                           THEN p.nodeTitles[i + 1] ELSE Undefined],
       rng |-> After(r0, 6)]

\* for (let i = 0; i < nodeCount; i++) nodes.push(...).  (The CHOOSE over a
\* one-element set only makes TLC evaluate the loop body once per pass.)
\* Mutant: every node is placed from the generator as it was at the start.
RECURSIVE NodeLoopReusing(_, _, _, _)
NodeLoopReusing(p, i, r0, nodes) ==
  IF i >= p.nodeCount THEN [nodes |-> nodes, rng |-> r0]
  ELSE CHOOSE out \in { NodeLoopReusing(p, i + 1, r0, Append(nodes, m.node)) :
                          m \in {MakeNode(p, i, r0)} } : TRUE

RECURSIVE NodeLoop(_, _, _, _)
NodeLoop(p, i, r0, nodes) ==
  IF i >= p.nodeCount THEN [nodes |-> nodes, rng |-> r0]
  ELSE CHOOSE out \in { NodeLoop(p, i + 1, m.rng, Append(nodes, m.node)) :
                          m \in {MakeNode(p, i, r0)} } : TRUE

(***************************************************************************)
(* generateDiagram: connection synthesis.                                  *)
(***************************************************************************)
\* Mutant: the forward target without its Math.min clamp.
ForwardTargetUnclamped(nodeCount, i, k, rangeV) == i + 1 + (k * rangeV) \div GridDen

\* Math.min(nodeCount - 1, i + 1 + Math.floor(rng.random() * range))
ForwardTarget(nodeCount, i, k, rangeV) ==
  Min(nodeCount - 1, i + 1 + (k * rangeV) \div GridDen)

\* Math.floor(rng.random() * nodeCount), moved off i to (i + 1) % nodeCount
RandomTarget(nodeCount, i, k) ==
  LET t == (k * nodeCount) \div GridDen
  IN  IF t = i THEN (i + 1) % nodeCount ELSE t

\* The target-selection policy, drawing from r0 on.  used is the number of
\* draws consumed; the branch taken is kept for the properties' use only.
SelectTarget(p, i, r0) ==
  LET nodeCount == p.nodeCount
      forwardBias == p.flowDirectionality
      rangeV == Max(1, (nodeCount * p.downwardBias) \div (2 * GridDen))
  IN  IF Nth(r0, 0) < p.selfLoopChance
      THEN [targetIndex |-> i, used |-> 1, branch |-> "self"]
      ELSE IF Nth(r0, 1) < forwardBias /\ i < nodeCount - 1
      THEN [targetIndex |-> ForwardTarget(nodeCount, i, Nth(r0, 2), rangeV),
            used |-> 3, branch |-> "forward"]
      ELSE IF Nth(r0, 2) < p.backwardConnectionFreq /\ i > 0
      THEN [targetIndex |-> (Nth(r0, 3) * i) \div GridDen,
            used |-> 4, branch |-> "backward"]
      ELSE [targetIndex |-> RandomTarget(nodeCount, i, Nth(r0, 3)),
            used |-> 4, branch |-> "random"]

\* curveIntensity * (1 + (random() - 0.5) * curveVariation), in units of
\* 1/(20 * GridDen^3); scale = 10 for the primary edge, 8 for curveFactor * 0.8.
CurveFactor(p, k, scale) ==
  scale * p.curveIntensity * (2 * GridDen * GridDen + (2 * k - GridDen) * p.curveVariation)

G4 == GridDen * GridDen * GridDen * GridDen

\* Mutant: the offset keeps its side whatever the sign of mult.
ControlPointSameSide(fromNode, toNode, curveFactor, k, mult, along, weight) ==
  LET from2X == 2 * fromNode.x + fromNode.width
      from2Y == 2 * fromNode.y + fromNode.height
      dx2 == (2 * toNode.x + toNode.width) - from2X
      dy2 == (2 * toNode.y + toNode.height) - from2Y
      off == curveFactor * (2 * k - GridDen) * weight * (IF mult < 0 THEN 0 - mult ELSE mult)
  IN  IF dx2 = 0 /\ dy2 = 0
      THEN [x |-> NaN, y |-> NaN]
      ELSE [x |-> (from2X * 4000 * G4 + dx2 * along * 40 * G4 - dy2 * off) \div (8000 * G4),
            y |-> (from2Y * 4000 * G4 + dy2 * along * 40 * G4 + dx2 * off) \div (8000 * G4)]

\* A control point at along/200 of the chord plus perp * offset * weight/10.
\* perp * offset = (-dy, dx)/distance * distance * curveFactor * (draw - 0.5):
\* the distance cancels unless it is 0, where -dy/distance is 0/0 = NaN.
\* mult = 10 for offset, -6 for offset2 = -offset * 0.6.  Centres are doubled
\* (2x + width) so that width/2 stays whole.
ControlPoint(fromNode, toNode, curveFactor, k, mult, along, weight) ==
  LET from2X == 2 * fromNode.x + fromNode.width
      from2Y == 2 * fromNode.y + fromNode.height
      dx2 == (2 * toNode.x + toNode.width) - from2X
      dy2 == (2 * toNode.y + toNode.height) - from2Y
      off == curveFactor * (2 * k - GridDen) * weight * mult
  IN  IF dx2 = 0 /\ dy2 = 0
      THEN [x |-> NaN, y |-> NaN]
      ELSE [x |-> (from2X * 4000 * G4 + dx2 * along * 40 * G4 - dy2 * off) \div (8000 * G4),
            y |-> (from2Y * 4000 * G4 + dy2 * along * 40 * G4 + dx2 * off) \div (8000 * G4)]

\* Mutant: the counter is read but not advanced.
PostIncrementStuck(connectionId) == connectionId

\* connectionId++ : the value of connectionId after the increment
PostIncrement(connectionId) == connectionId + 1

\* Mutant: the second edge does not depend on the target differing from i.
EmitEdgesAlways(p, fromNode, toNode, i, targetIndex, r1, connectionId) ==
  LET curveFactor == CurveFactor(p, Nth(r1, 0), 10)
      k == Nth(r1, 1)
      first == [id |-> connectionId,
                from |-> i,
                to |-> targetIndex,
                curve |-> curveFactor,
                dashed |-> Nth(r1, 2) < p.dashedFrequency,
                hasArrow |-> Nth(r1, 3) < p.arrowFrequency,
                controlPoint1 |-> ControlPoint(fromNode, toNode, curveFactor, k, 10, 33, 7),
                controlPoint2 |-> ControlPoint(fromNode, toNode, curveFactor, k, 10, 67, 13)]
      second == [id |-> PostIncrement(connectionId),
                 from |-> i,
                 to |-> targetIndex,
                 curve |-> CurveFactor(p, Nth(r1, 0), 8),
                 dashed |-> Nth(r1, 5) < p.dashedFrequency,
                 hasArrow |-> Nth(r1, 6) < p.arrowFrequency,
                 controlPoint1 |-> ControlPoint(fromNode, toNode, curveFactor, k, 0 - 6, 33, 7),
                 controlPoint2 |-> ControlPoint(fromNode, toNode, curveFactor, k, 0 - 6, 67, 13)]
  IN  IF Nth(r1, 4) < p.multiConnectionChance
      THEN [emitted |-> <<first, second>>, rng |-> After(r1, 7),
            connectionId |-> PostIncrement(PostIncrement(connectionId))]
      ELSE [emitted |-> <<first>>, rng |-> After(r1, 5),
            connectionId |-> PostIncrement(connectionId)]

\* The edges of one candidate whose target is chosen: r1 is the generator
\* after target selection.  Draws, in order: curve, offset, dashed, hasArrow,
\* multi-connection, and for the second edge dashed, hasArrow.
EmitEdges(p, fromNode, toNode, i, targetIndex, r1, connectionId) ==
  LET curveFactor == CurveFactor(p, Nth(r1, 0), 10)
      k == Nth(r1, 1)
      first == [id |-> connectionId,
                from |-> i,
                to |-> targetIndex,
                curve |-> curveFactor,
                dashed |-> Nth(r1, 2) < p.dashedFrequency,
                hasArrow |-> Nth(r1, 3) < p.arrowFrequency,
                controlPoint1 |-> ControlPoint(fromNode, toNode, curveFactor, k, 10, 33, 7),
                controlPoint2 |-> ControlPoint(fromNode, toNode, curveFactor, k, 10, 67, 13)]
      second == [id |-> PostIncrement(connectionId),
                 from |-> i,
                 to |-> targetIndex,
                 curve |-> CurveFactor(p, Nth(r1, 0), 8),
                 dashed |-> Nth(r1, 5) < p.dashedFrequency,
                 hasArrow |-> Nth(r1, 6) < p.arrowFrequency,
                 controlPoint1 |-> ControlPoint(fromNode, toNode, curveFactor, k, 0 - 6, 33, 7),
                 controlPoint2 |-> ControlPoint(fromNode, toNode, curveFactor, k, 0 - 6, 67, 13)]
  IN  IF Nth(r1, 4) < p.multiConnectionChance /\ i # targetIndex
      THEN [emitted |-> <<first, second>>, rng |-> After(r1, 7),
            connectionId |-> PostIncrement(PostIncrement(connectionId))]
      ELSE [emitted |-> <<first>>, rng |-> After(r1, 5),
            connectionId |-> PostIncrement(connectionId)]

\* One pass of the inner loop body (one candidate edge of source node i).
\* threw: nodes[targetIndex] is undefined and reading toNode.x throws.
Candidate(p, nodes, i, r0, connectionId) ==
  IF Nth(r0, 0) > p.connectionDensity
  THEN [emitted |-> <<>>, rng |-> After(r0, 1), branch |-> "skip", threw |-> FALSE,
        connectionId |-> connectionId]
  ELSE CHOOSE out \in
         { IF ~(sel.targetIndex \in 0..(Len(nodes) - 1))
           THEN [emitted |-> <<>>, rng |-> After(r0, 1 + sel.used), branch |-> sel.branch,
                 threw |-> TRUE, connectionId |-> connectionId]
           ELSE CHOOSE res \in
                  { [emitted |-> e.emitted, rng |-> e.rng, branch |-> sel.branch,
                     threw |-> FALSE, connectionId |-> e.connectionId] :
                      e \in { EmitEdges(p, nodes[i + 1], nodes[sel.targetIndex + 1], i,
                                        sel.targetIndex, After(r0, 1 + sel.used),
                                        connectionId) } } : TRUE :
             sel \in {SelectTarget(p, i, After(r0, 1))} } : TRUE

\* floor(1 + connectionDensity * branchingFactor * 5)
ConnectionsFromNode(p) ==
  1 + (p.connectionDensity * p.branchingFactor * 5) \div (GridDen * GridDen)

\* The two nested loops; log keeps, per candidate, the generator's counter
\* before it, the branch taken, the number of draws it consumed, the number of
\* edges it emitted and the position of its first edge in connections.
RECURSIVE ConnLoop(_, _, _, _, _, _, _, _)
ConnLoop(p, nodes, i, j, r0, connections, connectionId, log) ==
  IF i >= p.nodeCount
  THEN [connections |-> connections, rng |-> r0, log |-> log, threw |-> FALSE]
  ELSE IF j >= ConnectionsFromNode(p)
  THEN ConnLoop(p, nodes, i + 1, 0, r0, connections, connectionId, log)
  ELSE CHOOSE out \in
         { IF c.threw
           THEN [connections |-> connections, rng |-> c.rng,
                 log |-> Append(log, [from |-> i, j |-> j, branch |-> c.branch,
                                      seed |-> r0.seed,
                                      draws |-> c.rng.seed - r0.seed,
                                      emitted |-> Len(c.emitted),
                                      first |-> Len(connections) + 1]),
                 threw |-> TRUE]
           ELSE ConnLoop(p, nodes, i, j + 1, c.rng, connections \o c.emitted,
                         c.connectionId,
                         Append(log, [from |-> i, j |-> j, branch |-> c.branch,
                                      seed |-> r0.seed,
                                      draws |-> c.rng.seed - r0.seed,
                                      emitted |-> Len(c.emitted),
                                      first |-> Len(connections) + 1])) :
             c \in {Candidate(p, nodes, i, r0, connectionId)} } : TRUE

\* generateDiagram(params) with everything it leaves behind: the returned
\* state, whether it threw, the rng object's final counter, the log.
GenerateRun(p) ==
  CHOOSE out \in
    { CHOOSE res \in
        { [state |-> [nodes |-> n.nodes, connections |-> c.connections],
           threw |-> c.threw, rng |-> c.rng, nodeRng |-> n.rng, log |-> c.log] :
            c \in {ConnLoop(p, n.nodes, 0, 0, n.rng, <<>>, 0, <<>>)} } : TRUE :
      n \in {NodeLoop(p, 0, SeededRandom(p.randomSeed), <<>>)} } : TRUE

generateDiagram(p) == GenerateRun(p).state

(***************************************************************************)
(* Parameter sets.  Fractions are numerators over GridDen, nodeScale is in *)
(* tenths, animationSpeed * 0.1 is a numerator over PDen.                  *)
(***************************************************************************)
BaseParams ==
  [nodeCount |-> 2, randomSeed |-> 0, canvasWidth |-> 400, canvasHeight |-> 400,
   positionJitter |-> 1, layoutSpread |-> 2, horizontalBias |-> 1, verticalBias |-> 2,
   nodeMinWidth |-> 60, nodeMaxWidth |-> 120, nodeMinHeight |-> 20, nodeMaxHeight |-> 40,
   sizeVariation |-> 2, nodeScale |-> 10, nodeTitles |-> <<>>,
   connectionDensity |-> 1, branchingFactor |-> GridDen, selfLoopChance |-> 1,
   flowDirectionality |-> 1, downwardBias |-> GridDen, backwardConnectionFreq |-> 1,
   curveIntensity |-> 2, curveVariation |-> 1,
   dashedFrequency |-> 1, arrowFrequency |-> 2, multiConnectionChance |-> 1,
   animationSpeed |-> 1,
   nodeRoundness |-> 2, arrowSize |-> 8, dashLength |-> 5, dashGap |-> 5, arrowGap |-> 10]

Titles(n) == [k \in 1..n |-> IF k = 1 THEN <<"a">> ELSE <<>>]

\* nodeScale in tenths: the default 1.0 and, for the diagrams of one or two
\* nodes, also the slider's maximum 3.0
NodeScales(n) == IF n <= 2 THEN {10, 30} ELSE {10}

GenParams ==
  UNION { { [BaseParams EXCEPT !.nodeCount = n, !.randomSeed = s, !.selfLoopChance = sl,
                               !.nodeScale = sc, !.nodeTitles = Titles(n)] :
              s \in 0..1, sl \in 0..1, sc \in NodeScales(n) } :
          n \in 1..MaxNodes }

SinTables == [0..(Period - 1) -> 0..(GridDen - 1)]

(***************************************************************************)
(* The generator under call: any sequence of up to MaxCalls calls.         *)
(***************************************************************************)
IdleInterp == /\ stA = <<>> /\ stB = <<>> /\ prog = 0 /\ interp = <<>>
IdleAnim == /\ params = <<>> /\ currentState = <<>> /\ targetState = <<>>
            /\ rendered = <<>> /\ progressRef = 0 /\ frames = <<>>
            /\ observer = <<>> /\ canvas = <<>> /\ nextRef = 1 /\ lastStep = <<>>
            /\ panel = <<>> /\ downloads = <<>> /\ errors = 0
IdleRender == /\ scene = <<>> /\ sceneParams = <<>> /\ lineDash = <<>>
              /\ raster = <<>> /\ vector = <<>> /\ shrink = <<>>

InitGen ==
  /\ sinFrac \in SinTables
  /\ rng = [seed |-> 0]
  /\ history = <<>>
  /\ IdleInterp /\ IdleAnim /\ IdleRender

GenerateCall(p) ==
  /\ Len(history) < MaxCalls
  /\ LET run == GenerateRun(p)
     IN  /\ rng' = run.rng
         /\ history' = Append(history, [params |-> p, run |-> run])
  /\ UNCHANGED <<sinFrac, interpVars, animVars, renderVars>>

NextGen == \E p \in GenParams : GenerateCall(p)

SpecGen == InitGen /\ [][NextGen]_vars

(***************************************************************************)
(* interpolateStates, lerp and easeInOutCubic.  The progress handed to     *)
(* interpolateStates and lerp is an eased value, a numerator over EDen.    *)
(***************************************************************************)
EDen == PDen * PDen * PDen

\* a + (b - a) * t; NaN in either operand gives NaN, also when t is 0.
lerp(a, b, t) ==
  IF a = NaN \/ b = NaN THEN NaN ELSE a + ((b - a) * t) \div EDen

\* Mutant: the second branch without the division by 2.
easeInOutCubicUnhalved(k) ==
  IF 2 * k < PDen THEN 4 * k * k * k
  ELSE EDen - 8 * (PDen - k) * (PDen - k) * (PDen - k)

\* t < 0.5 ? 4 t^3 : 1 - (-2 t + 2)^3 / 2, for t = k/PDen, over EDen
easeInOutCubic(k) ==
  IF 2 * k < PDen THEN 4 * k * k * k
  ELSE EDen - 4 * (PDen - k) * (PDen - k) * (PDen - k)

\* list[i] for a 0-based i: <<element>>, or <<>> where JavaScript gives undefined
At(list, i) == IF i \in 0..(Len(list) - 1) THEN <<list[i + 1]>> ELSE <<>>

\* a || b on two such lookups
OrElse(a, b) == IF a # <<>> THEN a ELSE b

\* label: toNode.label || fromNode.label
LabelOr(a, b) == IF Truthy(a) THEN a ELSE b

\* Mutant: the node's id taken from the source side.
InterpNodeFromId(fromNode, toNode, progress) ==
  [id |-> fromNode.id,
   x |-> lerp(fromNode.x, toNode.x, progress),
   y |-> lerp(fromNode.y, toNode.y, progress),
   width |-> lerp(fromNode.width, toNode.width, progress),
   height |-> lerp(fromNode.height, toNode.height, progress),
   label |-> LabelOr(toNode.label, fromNode.label)]

InterpNode(fromNode, toNode, progress) ==
  [id |-> toNode.id,
   x |-> lerp(fromNode.x, toNode.x, progress),
   y |-> lerp(fromNode.y, toNode.y, progress),
   width |-> lerp(fromNode.width, toNode.width, progress),
   height |-> lerp(fromNode.height, toNode.height, progress),
   label |-> LabelOr(toNode.label, fromNode.label)]

InterpConn(fromConn, toConn, progress) ==
  [id |-> toConn.id,
   from |-> toConn.from,
   to |-> toConn.to,
   curve |-> lerp(fromConn.curve, toConn.curve, progress),
   dashed |-> toConn.dashed,
   hasArrow |-> toConn.hasArrow,
   controlPoint1 |-> [x |-> lerp(fromConn.controlPoint1.x, toConn.controlPoint1.x, progress),
                      y |-> lerp(fromConn.controlPoint1.y, toConn.controlPoint1.y, progress)],
   controlPoint2 |-> [x |-> lerp(fromConn.controlPoint2.x, toConn.controlPoint2.x, progress),
                      y |-> lerp(fromConn.controlPoint2.y, toConn.controlPoint2.y, progress)]]

\* The two sides of element i: from[i] || to[min(i, |to| - 1)] and
\* to[i] || from[min(i, |from| - 1)]; <<>> where the program reads undefined.
FromSide(fromList, toList, i) ==
  OrElse(At(fromList, i), At(toList, Min(i, Len(toList) - 1)))

\* Mutant: the fallback of the target side stays inside the target list.
ToSideWithinTo(fromList, toList, i) ==
  OrElse(At(toList, i), At(toList, Min(i, Len(toList) - 1)))

ToSide(fromList, toList, i) ==
  OrElse(At(toList, i), At(fromList, Min(i, Len(fromList) - 1)))

\* Whether some element of the loop over the two lists reads undefined.
ReadsMissing(fromList, toList) ==
  \E i \in 0..(Max(Len(fromList), Len(toList)) - 1) :
    FromSide(fromList, toList, i) = <<>> \/ ToSide(fromList, toList, i) = <<>>

interpolateStates(from, to, progress) ==
  LET maxNodes == Max(Len(from.nodes), Len(to.nodes))
      maxConnections == Max(Len(from.connections), Len(to.connections))
  IN  [nodes |->
         [k \in 1..maxNodes |->
            InterpNode(Head(FromSide(from.nodes, to.nodes, k - 1)),
                       Head(ToSide(from.nodes, to.nodes, k - 1)), progress)],
       connections |->
         [k \in 1..maxConnections |->
            InterpConn(Head(FromSide(from.connections, to.connections, k - 1)),
                       Head(ToSide(from.connections, to.connections, k - 1)), progress)]]

(***************************************************************************)
(* The interpolator under call: two states drawn from a pool of hand-made  *)
(* and generated states, and any eased progress.                           *)
(***************************************************************************)
NodePool ==
  << [id |-> 0, x |-> 80,  y |-> 100, width |-> 60, height |-> 20, label |-> <<"a">>],
     [id |-> 1, x |-> 200, y |-> 180, width |-> 90, height |-> 30, label |-> Undefined],
     [id |-> 2, x |-> 140, y |-> 260, width |-> 70, height |-> 40, label |-> <<>>] >>

ConnPool ==
  << [id |-> 0, from |-> 0, to |-> 1, curve |-> 300, dashed |-> FALSE, hasArrow |-> TRUE,
      controlPoint1 |-> [x |-> 150, y |-> 120], controlPoint2 |-> [x |-> 210, y |-> 170]],
     [id |-> 1, from |-> 1, to |-> 0, curve |-> 240, dashed |-> TRUE, hasArrow |-> FALSE,
      controlPoint1 |-> [x |-> 190, y |-> 160], controlPoint2 |-> [x |-> 130, y |-> 130]],
     [id |-> 2, from |-> 1, to |-> 1, curve |-> 180, dashed |-> TRUE, hasArrow |-> TRUE,
      controlPoint1 |-> [x |-> NaN, y |-> NaN], controlPoint2 |-> [x |-> NaN, y |-> NaN]] >>

\* l consecutive elements of pool, cyclically, from offset o
Window(pool, o, l) == [k \in 1..l |-> pool[((o + k - 1) % Len(pool)) + 1]]

Windows(pool) == { Window(pool, o, l) : o \in 0..(Len(pool) - 1), l \in 0..MaxLen }

InterpParams ==
  { [BaseParams EXCEPT !.nodeCount = n, !.selfLoopChance = sl] :
      n \in 3..MaxNodes, sl \in 0..1 }

InterpStates ==
  { [nodes |-> ns, connections |-> cs] : ns \in Windows(NodePool), cs \in Windows(ConnPool) }

EmptyState == [nodes |-> <<>>, connections |-> <<>>]

ProgressGrid == { easeInOutCubic(k) : k \in 0..PDen }

ConstTables == { [s \in 0..(Period - 1) |-> c] : c \in 0..(GridDen - 1) }

IdleGen == rng = [seed |-> 0] /\ history = <<>>

InitInterp ==
  /\ sinFrac \in ConstTables
  /\ stA \in InterpStates
  /\ stB \in InterpStates
  /\ prog = 0
  /\ interp = <<>>
  /\ IdleGen /\ IdleAnim /\ IdleRender

\* The source state is one generateDiagram returned.
UseGeneratedSource(p) ==
  /\ interp = <<>> /\ stA = EmptyState
  /\ stA' = generateDiagram(p)
  /\ UNCHANGED <<sinFrac, stB, prog, interp, genVars, animVars, renderVars>>

\* The target state is one generateDiagram returned.
UseGeneratedTarget(p) ==
  /\ interp = <<>> /\ stB = EmptyState
  /\ stB' = generateDiagram(p)
  /\ UNCHANGED <<sinFrac, stA, prog, interp, genVars, animVars, renderVars>>

Interpolate(t) ==
  /\ interp = <<>>
  /\ ~ReadsMissing(stA.nodes, stB.nodes)
  /\ ~ReadsMissing(stA.connections, stB.connections)
  /\ prog' = t
  /\ interp' = <<interpolateStates(stA, stB, t)>>
  /\ UNCHANGED <<sinFrac, stA, stB, genVars, animVars, renderVars>>

NextInterp ==
  \/ \E p \in InterpParams : UseGeneratedSource(p)
  \/ \E p \in InterpParams : UseGeneratedTarget(p)
  \/ \E t \in ProgressGrid : Interpolate(t)

SpecInterp == InitInterp /\ [][NextInterp]_vars

(***************************************************************************)
(* The animation loop of DiagramCanvas.  React state objects carry an      *)
(* identity (ref): effect dependencies and setState compare by identity.   *)
(* A state update made in an effect or in a frame callback is rendered by  *)
(* a later render pass, so a requested frame may fire before that pass.    *)
(* A parameter change is taken when no such pass is pending.               *)
(***************************************************************************)
\* useState<DiagramState | null>(null)
Null == [ref |-> 0, state |-> EmptyState]

\* animationSpeed * 0.1 over PDen; 0 is the speed of an animation that never ends
AnimSpeeds == {0, 1, PDen - 1}

AnimParams ==
  { [BaseParams EXCEPT !.nodeCount = n, !.animationSpeed = v] :
      n \in 3..MaxNodes, v \in AnimSpeeds }

Closure(cur, tgt, p) == [currentState |-> cur, targetState |-> tgt, params |-> p]

NotHeld(f) == ~f.held

\* animationFrameRef.current = requestAnimationFrame(animate), for the
\* animate of closure c
requestAnimationFrame(fr, c) ==
  [k \in 1..Len(fr) |-> [fr[k] EXCEPT !.held = FALSE]]
    \o << [closure |-> c, held |-> TRUE] >>

\* cancelAnimationFrame(animationFrameRef.current)
cancelAnimationFrame(fr) == SelectSeq(fr, NotHeld)

\* The cleanup of the animation effect; there is none when the effect's
\* latest run returned at its null check.
Cleanup(fr) ==
  IF rendered.currentState = Null \/ rendered.targetState = Null THEN fr
  ELSE cancelAnimationFrame(fr)

\* The animation effect's run in a render that sees cur, tgt and p.
AnimationEffect(fr, cur, tgt, p) ==
  IF cur = Null \/ tgt = Null THEN fr
  ELSE requestAnimationFrame(fr, Closure(cur, tgt, p))

\* Mutant: progress advanced by at least one step whatever the speed.
AdvanceCreeping(progress, speed) == Min(PDen, progress + Max(1, speed))

\* Mutant: progress advanced without the Math.min.
AdvanceUnclamped(progress, speed) == progress + speed

\* Math.min(1, progressRef.current + speed)
Advance(progress, speed) == Min(PDen, progress + speed)

Mounted == params # <<>>

RenderPending ==
  <<currentState, targetState>> # <<rendered.currentState, rendered.targetState>>

\* First render and its effects: the params effect sets the target and
\* progress, the initialize effect sets current and target to one new state
\* (the later setTargetState wins), the animation effect returns at its
\* null check.
Mount(p) ==
  /\ ~Mounted
  /\ LET pr == [ref |-> nextRef, value |-> p]
         initial == [ref |-> nextRef + 2, state |-> generateDiagram(p)]
     IN  /\ params' = pr
         /\ currentState' = initial
         /\ targetState' = initial
         /\ rendered' = Closure(Null, Null, pr)
         /\ frames' = AnimationEffect(<<>>, Null, Null, pr)
  /\ progressRef' = 0
  /\ nextRef' = nextRef + 3
  /\ lastStep' = [kind |-> "mount"]
  /\ UNCHANGED <<sinFrac, observer, canvas, appVars, genVars, interpVars, renderVars>>

\* A render pass for state updates: currentState or targetState changed, so
\* the animation effect is cleaned up and run again.
Render ==
  /\ Mounted
  /\ RenderPending
  /\ frames' = AnimationEffect(Cleanup(frames), currentState, targetState, params)
  /\ rendered' = Closure(currentState, targetState, params)
  /\ lastStep' = [kind |-> "render"]
  /\ UNCHANGED <<sinFrac, params, currentState, targetState, progressRef, observer,
                 canvas, nextRef, appVars, genVars, interpVars, renderVars>>

\* App passes new params (a new object on every update): the render runs the
\* animation effect's cleanup, the params effect, and the animation effect
\* with the target this render saw.  The same render of App hands its
\* currentState to ControlPanel.
ParamChange(p) ==
  /\ Mounted
  /\ ~RenderPending
  /\ nextRef < 4 + 2 * MaxChanges
  /\ LET pr == [ref |-> nextRef, value |-> p]
         newDiagram == [ref |-> nextRef + 1, state |-> generateDiagram(p)]
     IN  /\ params' = pr
         /\ targetState' = newDiagram
         /\ frames' = AnimationEffect(Cleanup(frames), currentState, targetState, pr)
         /\ rendered' = Closure(currentState, targetState, pr)
  /\ progressRef' = 0
  /\ nextRef' = nextRef + 2
  /\ lastStep' = [kind |-> "params", before |-> progressRef]
  /\ panel' = observer
  /\ UNCHANGED <<sinFrac, currentState, observer, canvas, downloads, errors, genVars,
                 interpVars, renderVars>>

\* The oldest requested frame fires: animate() of its closure.
animate ==
  /\ frames # <<>>
  /\ LET c == Head(frames).closure
         progress == Advance(progressRef, c.params.value.animationSpeed)
         interpolated == interpolateStates(c.currentState.state, c.targetState.state,
                                           easeInOutCubic(progress))
     IN  /\ progressRef' = progress
         /\ canvas' = [state |-> interpolated, params |-> c.params.ref]
         /\ IF progress < PDen
            THEN /\ frames' = requestAnimationFrame(Tail(frames), c)
                 /\ observer' = interpolated
                 /\ UNCHANGED currentState
            ELSE /\ frames' = Tail(frames)
                 /\ currentState' = c.targetState
                 /\ observer' = c.targetState.state
         /\ lastStep' = [kind |-> "tick", before |-> progressRef,
                         speed |-> c.params.value.animationSpeed,
                         eased |-> easeInOutCubic(progress),
                         currentState |-> c.currentState, targetState |-> c.targetState,
                         delivered |-> IF progress < PDen THEN <<interpolated>>
                                       ELSE <<interpolated, c.targetState.state>>]
  /\ UNCHANGED <<sinFrac, params, targetState, rendered, nextRef, appVars, genVars,
                 interpVars, renderVars>>

InitAnim ==
  /\ sinFrac \in ConstTables
  /\ IdleGen /\ IdleInterp /\ IdleAnim /\ IdleRender

NextAnim ==
  \/ \E p \in AnimParams : Mount(p)
  \/ Render
  \/ \E p \in AnimParams : ParamChange(p)
  \/ animate

SpecAnim == InitAnim /\ [][NextAnim]_vars

(***************************************************************************)
(* Geometry shared by the two renderers.  Rendered points are in half      *)
(* canvas units (every coordinate doubled), so that a node's centre        *)
(* x + width / 2 is whole; square roots and quotients are rounded down.    *)
(***************************************************************************)
Abs(a) == IF a < 0 THEN 0 - a ELSE a

\* Math.sqrt
Sqrt(n) == CHOOSE r \in 0..n : r * r <= n /\ n < (r + 1) * (r + 1)

Dbl(v) == IF v = NaN THEN NaN ELSE 2 * v
DblPoint(pt) == [x |-> Dbl(pt.x), y |-> Dbl(pt.y)]

\* (x + width / 2, y + height / 2)
Centre(n) == [x |-> 2 * n.x + n.width, y |-> 2 * n.y + n.height]

\* Math.sqrt(dx * dx + dy * dy) between two rendered points
Distance(a, b) == Sqrt((b.x - a.x) * (b.x - a.x) + (b.y - a.y) * (b.y - a.y))

\* The point where the chord toward toNode leaves fromNode's rectangle, moved
\* on by gap.  cos(angle) = dx / d and sin(angle) = dy / d; Math.atan2(0, 0)
\* is 0, so coincident centres have cos 1 and sin 0.
getConnectionPoint(fromNode, toNode, gap) ==
  LET c == Centre(fromNode)
      dx == Centre(toNode).x - c.x
      dy == Centre(toNode).y - c.y
      d == Sqrt(dx * dx + dy * dy)
      sideways == d = 0 \/ Abs(dx) * fromNode.height > Abs(dy) * fromNode.width
      rise == IF d = 0 THEN 0 ELSE (fromNode.width * dy) \div Abs(dx)
      edge == IF sideways
              THEN IF dx > 0
                   THEN [x |-> 2 * (fromNode.x + fromNode.width), y |-> c.y + rise]
                   ELSE [x |-> 2 * fromNode.x, y |-> c.y - rise]
              ELSE IF dy > 0
                   THEN [x |-> c.x + (fromNode.height * dx) \div Abs(dy),
                         y |-> 2 * (fromNode.y + fromNode.height)]
                   ELSE [x |-> c.x - (fromNode.height * dx) \div Abs(dy),
                         y |-> 2 * fromNode.y]
  IN  [x |-> edge.x + (IF d = 0 THEN 2 * gap ELSE (2 * gap * dx) \div d),
       y |-> edge.y + (IF d = 0 THEN 0 ELSE (2 * gap * dy) \div d)]

\* lerp(a, b, 1 / ratio) for ratio = num / den; 1 / 0 gives no finite value
lerpInverse(a, b, num, den) ==
  IF a = NaN \/ b = NaN \/ num = 0 THEN NaN ELSE a + ((b - a) * den) \div num

\* cp1 and cp2: the stored control points re-projected from the trimmed ends
\* by 1 / (1 - startRatio) and 1 / endRatio.
RescaledControlPoints(conn, fromNode, toNode, gap) ==
  LET startPoint == getConnectionPoint(fromNode, toNode, gap)
      endPoint == getConnectionPoint(toNode, fromNode, gap)
      totalDist == Distance(Centre(fromNode), Centre(toNode))
      startLen == Distance(Centre(fromNode), startPoint)
      endLen == Distance(endPoint, Centre(toNode))
  IN  [cp1 |-> [x |-> lerpInverse(startPoint.x, Dbl(conn.controlPoint1.x),
                                  totalDist - startLen, totalDist),
                y |-> lerpInverse(startPoint.y, Dbl(conn.controlPoint1.y),
                                  totalDist - startLen, totalDist)],
       cp2 |-> [x |-> lerpInverse(endPoint.x, Dbl(conn.controlPoint2.x),
                                  totalDist - endLen, totalDist),
                y |-> lerpInverse(endPoint.y, Dbl(conn.controlPoint2.y),
                                  totalDist - endLen, totalDist)]]

\* const arrowPos = 0.5, in halves
arrowPos == 1

Cubic(a, b, c, d, t) ==
  IF NaN \in {a, b, c, d} THEN NaN
  ELSE ((2 - t) * (2 - t) * (2 - t) * a + 3 * (2 - t) * (2 - t) * t * b
          + 3 * (2 - t) * t * t * c + t * t * t * d) \div 8

CubicSlope(a, b, c, d, t) ==
  IF NaN \in {a, b, c, d} THEN NaN
  ELSE (3 * (2 - t) * (2 - t) * (b - a) + 6 * (2 - t) * t * (c - b)
          + 3 * t * t * (d - c)) \div 4

\* t is in halves
getPointOnBezier(p0, p1, p2, p3, t) ==
  [x |-> Cubic(p0.x, p1.x, p2.x, p3.x, t), y |-> Cubic(p0.y, p1.y, p2.y, p3.y, t)]

getTangentOnBezier(p0, p1, p2, p3, t) ==
  [x |-> CubicSlope(p0.x, p1.x, p2.x, p3.x, t),
   y |-> CubicSlope(p0.y, p1.y, p2.y, p3.y, t)]

\* Mutant: the node at position id instead of the node with that id.
FindAt(nodes, id) == IF id \in 0..(Len(nodes) - 1) THEN <<nodes[id + 1]>> ELSE <<>>

\* state.nodes.find(n => n.id === id): <<node>>, or <<>> for undefined
Find(nodes, id) ==
  IF \E k \in 1..Len(nodes) : nodes[k].id = id
  THEN <<nodes[CHOOSE k \in 1..Len(nodes) :
                  nodes[k].id = id /\ \A m \in 1..(k - 1) : nodes[m].id # id]>>
  ELSE <<>>

\* label.trim() is not empty
NonBlank(label) == \E k \in 1..Len(label) : label[k] # " "

(***************************************************************************)
(* The two renderers.  What a renderer does is the sequence of its drawing *)
(* operations (raster) or document elements (vector), in one vocabulary:   *)
(* background, curve, arrow, rect, text.  conn and node are positions in   *)
(* the state's lists.  An arrow is given by the point and tangent it is    *)
(* placed at; both renderers derive its wings from these the same way.     *)
(***************************************************************************)
BackgroundOp(p) == [kind |-> "background", width |-> p.canvasWidth, height |-> p.canvasHeight]

CurveOp(k, startPoint, cp1, cp2, endPoint, dash) ==
  [kind |-> "curve", conn |-> k, from |-> startPoint, cp1 |-> cp1, cp2 |-> cp2,
   to |-> endPoint, dash |-> dash]

ArrowOp(k, startPoint, cp1, cp2, endPoint, size) ==
  [kind |-> "arrow", conn |-> k,
   at |-> getPointOnBezier(startPoint, cp1, cp2, endPoint, arrowPos),
   tangent |-> getTangentOnBezier(startPoint, cp1, cp2, endPoint, arrowPos),
   size |-> size]

RectOp(k, node, radius, dash) ==
  [kind |-> "rect", node |-> k, x |-> node.x, y |-> node.y, width |-> node.width,
   height |-> node.height, radius |-> Max(0, radius), dash |-> dash]

TextOp(k, text) == [kind |-> "text", node |-> k, text |-> text]

\* [dashLength, dashGap] for a dashed connection, [] otherwise
DashOf(conn, p) == IF conn.dashed THEN <<p.dashLength, p.dashGap>> ELSE <<>>

\* Mutant: only a connection from a node to itself is left out.
DrawableUnlessLoop(state, conn) ==
  /\ Find(state.nodes, conn.from) # <<>>
  /\ Find(state.nodes, conn.to) # <<>>
  /\ conn.from # conn.to

\* Neither end is undefined and the centres do not coincide.
Drawable(state, conn) ==
  /\ Find(state.nodes, conn.from) # <<>>
  /\ Find(state.nodes, conn.to) # <<>>
  /\ Distance(Centre(Find(state.nodes, conn.from)[1]),
              Centre(Find(state.nodes, conn.to)[1])) # 0

\* drawDiagram's callback for connection k, entered with the context's line
\* dash: the operations, and the line dash it leaves.  The return at
\* totalDist === 0 comes after setLineDash and before its reset.
DrawConnection(state, p, k, dash) ==
  LET conn == state.connections[k]
      fromNode == Find(state.nodes, conn.from)[1]
      toNode == Find(state.nodes, conn.to)[1]
      startPoint == getConnectionPoint(fromNode, toNode, p.arrowGap)
      endPoint == getConnectionPoint(toNode, fromNode, p.arrowGap)
      cp1 == DblPoint(conn.controlPoint1)
      cp2 == DblPoint(conn.controlPoint2)
  IN  IF Find(state.nodes, conn.from) = <<>> \/ Find(state.nodes, conn.to) = <<>>
      THEN [ops |-> <<>>, dash |-> dash]
      ELSE IF ~Drawable(state, conn)
      THEN [ops |-> <<>>, dash |-> DashOf(conn, p)]
      ELSE [ops |-> <<CurveOp(k, startPoint, cp1, cp2, endPoint, DashOf(conn, p))>>
                      \o (IF conn.hasArrow
                          THEN <<ArrowOp(k, startPoint, cp1, cp2, endPoint, p.arrowSize)>>
                          ELSE <<>>),
            dash |-> <<>>]

\* state.connections.forEach(...) of drawDiagram
RECURSIVE DrawConnections(_, _, _, _, _)
DrawConnections(state, p, k, dash, ops) ==
  IF k > Len(state.connections) THEN [ops |-> ops, dash |-> dash]
  ELSE CHOOSE out \in { DrawConnections(state, p, k + 1, c.dash, ops \o c.ops) :
                          c \in {DrawConnection(state, p, k, dash)} } : TRUE

\* drawDiagram's callback for node k.  The label's lines are one text
\* operation; no line is drawn when the base font size min(w, h) * 0.5 does
\* not exceed 8.
DrawNode(state, p, k, dash) ==
  LET node == state.nodes[k]
  IN  <<RectOp(k, node, p.nodeRoundness, dash)>>
        \o (IF Truthy(node.label) /\ NonBlank(node.label)
               /\ Min(node.width, node.height) > 16
            THEN <<TextOp(k, node.label)>> ELSE <<>>)

RECURSIVE Concat(_)
Concat(seqs) == IF seqs = <<>> THEN <<>> ELSE Head(seqs) \o Concat(Tail(seqs))

\* Mutant: the node loop runs before the connection loop.
drawDiagramNodesFirst(state, p, dash) ==
  CHOOSE out \in
    { [ops |-> <<BackgroundOp(p)>>
                 \o Concat([k \in 1..Len(state.nodes) |-> DrawNode(state, p, k, dash)])
                 \o c.ops,
       dash |-> c.dash] :
        c \in {DrawConnections(state, p, 1, dash, <<>>)} } : TRUE

\* drawDiagram(canvas, state, params) on a context whose line dash is dash
drawDiagram(state, p, dash) ==
  CHOOSE out \in
    { [ops |-> <<BackgroundOp(p)>> \o c.ops
                 \o Concat([k \in 1..Len(state.nodes) |-> DrawNode(state, p, k, c.dash)]),
       dash |-> c.dash] :
        c \in {DrawConnections(state, p, 1, dash, <<>>)} } : TRUE

\* The entities of the five replacements
Amp == <<"&", "a", "m", "p", ";">>
Lt == <<"&", "l", "t", ";">>
Gt == <<"&", "g", "t", ";">>
Quot == <<"&", "q", "u", "o", "t", ";">>
Apos == <<"&", "#", "3", "9", ";">>

\* String.replace(/ch/g, with)
replace(str, ch, with) ==
  Concat([k \in 1..Len(str) |-> IF str[k] = ch THEN with ELSE <<str[k]>>])

RECURSIVE ReplaceChain(_, _)
ReplaceChain(str, passes) ==
  IF passes = <<>> THEN str
  ELSE CHOOSE out \in { ReplaceChain(next, Tail(passes)) :
                          next \in {replace(str, Head(passes)[1], Head(passes)[2])} } : TRUE

\* Mutant: the ampersand replaced last.
escapeLabelAmpLast(label) ==
  ReplaceChain(label, << <<"<", Lt>>, <<">", Gt>>, <<"\"", Quot>>, <<"'", Apos>>,
                         <<"&", Amp>> >>)

\* label.replace(&).replace(<).replace(>).replace(").replace(')
escapeLabel(label) ==
  ReplaceChain(label, << <<"&", Amp>>, <<"<", Lt>>, <<">", Gt>>, <<"\"", Quot>>,
                         <<"'", Apos>> >>)

\* generateSvgFromDiagramState's callback for connection k
SvgConnection(state, p, k) ==
  LET conn == state.connections[k]
      fromNode == Find(state.nodes, conn.from)[1]
      toNode == Find(state.nodes, conn.to)[1]
      startPoint == getConnectionPoint(fromNode, toNode, p.arrowGap)
      endPoint == getConnectionPoint(toNode, fromNode, p.arrowGap)
  IN  IF ~Drawable(state, conn) THEN <<>>
      ELSE CHOOSE out \in
             { <<CurveOp(k, startPoint, r.cp1, r.cp2, endPoint, DashOf(conn, p))>>
                 \o (IF conn.hasArrow
                     THEN <<ArrowOp(k, startPoint, r.cp1, r.cp2, endPoint, p.arrowSize)>>
                     ELSE <<>>) :
               r \in {RescaledControlPoints(conn, fromNode, toNode, p.arrowGap)} } : TRUE

\* generateSvgFromDiagramState's callback for node k
SvgNode(state, p, k) ==
  LET node == state.nodes[k]
  IN  <<RectOp(k, node, p.nodeRoundness, <<>>)>>
        \o (IF Truthy(node.label) /\ NonBlank(node.label)
            THEN <<TextOp(k, escapeLabel(node.label))>> ELSE <<>>)

\* generateSvgFromDiagramState(state, params): the elements inside <svg>
generateSvgFromDiagramState(state, p) ==
  <<BackgroundOp(p)>>
    \o Concat([k \in 1..Len(state.connections) |-> SvgConnection(state, p, k)])
    \o Concat([k \in 1..Len(state.nodes) |-> SvgNode(state, p, k)])

(***************************************************************************)
(* The renderers under call: a state from a pool of hand-made nodes and    *)
(* connections (absent ends, coincident centres, a self-loop, labels of    *)
(* every spelling) or a generated state, drawn and exported.               *)
(***************************************************************************)
LabelAlphabet == {"&", "<", ">", "\"", "'", "a", " "}

Labels == UNION { [1..n -> LabelAlphabet] : n \in 0..MaxLabel }

SceneNodePool(label) ==
  << [id |-> 0, x |-> 80,  y |-> 100, width |-> 60, height |-> 20, label |-> label],
     [id |-> 1, x |-> 200, y |-> 180, width |-> 90, height |-> 30, label |-> Undefined],
     [id |-> 2, x |-> 90,  y |-> 90,  width |-> 40, height |-> 40, label |-> <<"a">>],
     [id |-> 3, x |-> 140, y |-> 260, width |-> 16, height |-> 12, label |-> <<"a">>] >>

SceneConnPool ==
  << [id |-> 0, from |-> 0, to |-> 1, curve |-> 300, dashed |-> TRUE, hasArrow |-> TRUE,
      controlPoint1 |-> [x |-> 150, y |-> 120], controlPoint2 |-> [x |-> 210, y |-> 170]],
     [id |-> 1, from |-> 1, to |-> 2, curve |-> 240, dashed |-> FALSE, hasArrow |-> FALSE,
      controlPoint1 |-> [x |-> 190, y |-> 160], controlPoint2 |-> [x |-> 130, y |-> 130]],
     [id |-> 2, from |-> 2, to |-> 0, curve |-> 200, dashed |-> FALSE, hasArrow |-> TRUE,
      controlPoint1 |-> [x |-> 110, y |-> 110], controlPoint2 |-> [x |-> 110, y |-> 110]],
     [id |-> 3, from |-> 1, to |-> 1, curve |-> 180, dashed |-> TRUE, hasArrow |-> TRUE,
      controlPoint1 |-> [x |-> NaN, y |-> NaN], controlPoint2 |-> [x |-> NaN, y |-> NaN]] >>

\* Up to MaxLen + 1 consecutive elements of a pool, from any offset
SceneWindows(pool) ==
  { Window(pool, o, l) : o \in 0..(Len(pool) - 1), l \in 0..(MaxLen + 1) }

SceneStates ==
  { [nodes |-> ns, connections |-> cs] :
      ns \in UNION { SceneWindows(SceneNodePool(l)) : l \in Labels },
      cs \in SceneWindows(SceneConnPool) }

SceneParams ==
  { [canvasWidth |-> 400, canvasHeight |-> 400, arrowGap |-> g, arrowSize |-> 10,
     dashLength |-> 5, dashGap |-> 3, nodeRoundness |-> r] :
      g \in {0, 5}, r \in {0, 8} }

\* The table of Math.sin values is read only when the generator supplies the
\* scene, so it varies only with the empty initial scene.
InitRender ==
  /\ scene \in SceneStates
  /\ sinFrac \in (IF scene = EmptyState THEN ConstTables
                  ELSE {[s \in 0..(Period - 1) |-> 0]})
  /\ sceneParams \in SceneParams
  /\ lineDash = <<>>
  /\ raster = <<>>
  /\ vector = <<>>
  /\ shrink = <<>>
  /\ IdleGen /\ IdleInterp /\ IdleAnim

\* The state to render is one generateDiagram returned.
UseGeneratedScene(p) ==
  /\ scene = EmptyState /\ raster = <<>> /\ vector = <<>>
  /\ scene' = generateDiagram(p)
  /\ UNCHANGED <<sinFrac, sceneParams, lineDash, raster, vector, shrink, genVars,
                 interpVars, animVars>>

\* drawDiagram on the canvas, whose context keeps its line dash.
Draw ==
  /\ LET pass == drawDiagram(scene, sceneParams, lineDash)
     IN  /\ raster' = pass.ops
         /\ lineDash' = pass.dash
  /\ UNCHANGED <<sinFrac, scene, sceneParams, vector, shrink, genVars, interpVars,
                 animVars>>

\* downloadSVG: generateSvgFromDiagramState on the same state and params.
Export ==
  /\ vector = <<>>
  /\ vector' = generateSvgFromDiagramState(scene, sceneParams)
  /\ UNCHANGED <<sinFrac, scene, sceneParams, lineDash, raster, shrink, genVars,
                 interpVars, animVars>>

NextRender ==
  \/ \E p \in InterpParams : UseGeneratedScene(p)
  \/ Draw
  \/ Export

SpecRender == InitRender /\ [][NextRender]_vars

(***************************************************************************)
(* App: the canvas delivers states through onStateChange = setCurrentState *)
(* and ControlPanel exports the currentState its latest render received.   *)
(* The state update is rendered by a later pass of App, or at once: the    *)
(* export may come before or after that pass.                              *)
(***************************************************************************)
\* App renders after setCurrentState and hands the state to ControlPanel.
AppRender ==
  /\ Mounted
  /\ panel # observer
  /\ panel' = observer
  /\ lastStep' = [kind |-> "appRender"]
  /\ UNCHANGED <<sinFrac, params, currentState, targetState, rendered, progressRef,
                 frames, observer, canvas, nextRef, downloads, errors, genVars,
                 interpVars, renderVars>>

\* downloadSVG of ControlPanel's latest render: console.error and return on
\* a null currentState, otherwise the document of that state and the params.
downloadSVG ==
  /\ Mounted
  /\ Len(downloads) + errors < MaxExports
  /\ IF panel = <<>>
     THEN /\ errors' = errors + 1
          /\ UNCHANGED downloads
     ELSE /\ downloads' = Append(downloads,
                                 generateSvgFromDiagramState(panel, params.value))
          /\ UNCHANGED errors
  /\ lastStep' = [kind |-> "export"]
  /\ UNCHANGED <<sinFrac, params, currentState, targetState, rendered, progressRef,
                 frames, observer, canvas, nextRef, panel, genVars, interpVars,
                 renderVars>>

NextApp ==
  \/ \E p \in AnimParams : Mount(p)
  \/ Render
  \/ \E p \in AnimParams : ParamChange(p)
  \/ animate
  \/ AppRender
  \/ downloadSVG

SpecApp == InitAnim /\ [][NextApp]_vars

(***************************************************************************)
(* The label autoshrink loop of drawDiagram, one step per loop test.  Font *)
(* sizes are in half pixels (0.5 * min(width, height) is min(width,        *)
(* height) halves).  ctx.measureText is the browser's: the advance of one  *)
(* character of the monospace font is metric/10 of the font size, fixed    *)
(* for a behaviour.                                                        *)
(***************************************************************************)
padding == 8
minimumFontSize == 8

LabelWidths == {40, 90}
LabelHeights == {12, 21, 30, 40}
Metrics == {4, 6, 12}
LabelTexts ==
  { <<"a">>, <<"a", " ", "a">>, <<"a", "a", " ", "a", "a", " ", "a">> }

\* text.split(' ')
RECURSIVE split(_)
split(text) ==
  IF text = <<>> THEN << <<>> >>
  ELSE LET rest == split(Tail(text))
       IN  IF Head(text) = " " THEN << <<>> >> \o rest
           ELSE << <<Head(text)>> \o Head(rest) >> \o Tail(rest)

\* getTextWidth(text) < maxWidth at font size font2 / 2
Narrower(text, font2, metric, maxWidth) == Len(text) * font2 * metric < 20 * maxWidth

\* The for loop of wrapText from word i on
RECURSIVE WrapFrom(_, _, _, _, _, _, _)
WrapFrom(words, i, currentLine, lines, font2, metric, maxWidth) ==
  IF i > Len(words) THEN Append(lines, currentLine)
  ELSE IF Narrower(currentLine \o <<" ">> \o words[i], font2, metric, maxWidth)
  THEN WrapFrom(words, i + 1, currentLine \o <<" ">> \o words[i], lines, font2, metric,
                maxWidth)
  ELSE WrapFrom(words, i + 1, words[i], Append(lines, currentLine), font2, metric,
                maxWidth)

wrapText(text, font2, metric, maxWidth) ==
  WrapFrom(split(text), 2, split(text)[1], <<>>, font2, metric, maxWidth)

\* totalHeight <= maxHeight for lineHeight = fontSize * 1.2
FitsHeight(lines, font2, maxHeight) == Len(lines) * font2 * 12 <= 20 * maxHeight

\* Mutant: fontSize -= 0.5
ShrinkStepHalf(font2) == font2 - 1

\* fontSize -= 1
ShrinkStep(font2) == font2 - 2

InitLabel ==
  /\ sinFrac = [s \in 0..(Period - 1) |-> 0]
  /\ IdleGen /\ IdleInterp /\ IdleAnim
  /\ scene = <<>> /\ sceneParams = <<>> /\ lineDash = <<>>
  /\ raster = <<>> /\ vector = <<>>
  /\ shrink \in { [width |-> w, height |-> h, label |-> l, metric |-> m,
                   fontSize |-> Min(w, h), lines |-> <<>>, iterations |-> 0,
                   pc |-> "while", drawn |-> <<>>] :
                    w \in LabelWidths, h \in LabelHeights, l \in LabelTexts,
                    m \in Metrics }

LabelUnchanged ==
  UNCHANGED <<sinFrac, scene, sceneParams, lineDash, raster, vector, genVars, interpVars,
              animVars>>

\* One pass of the loop body: wrap, test the height, break or shrink.
WhileBody ==
  /\ shrink.pc = "while"
  /\ shrink.fontSize > 2 * minimumFontSize
  /\ LET lines == wrapText(shrink.label, shrink.fontSize, shrink.metric,
                           shrink.width - 2 * padding)
     IN  shrink' =
           IF FitsHeight(lines, shrink.fontSize, shrink.height - 2 * padding)
           THEN [shrink EXCEPT !.lines = lines, !.iterations = @ + 1, !.pc = "draw"]
           ELSE [shrink EXCEPT !.lines = lines, !.iterations = @ + 1,
                               !.fontSize = ShrinkStep(@)]
  /\ LabelUnchanged

\* The loop test fails: fontSize is not above the minimum.
WhileExit ==
  /\ shrink.pc = "while"
  /\ shrink.fontSize <= 2 * minimumFontSize
  /\ shrink' = [shrink EXCEPT !.pc = "draw"]
  /\ LabelUnchanged

\* lines.forEach(line => ctx.fillText(...))
FillText ==
  /\ shrink.pc = "draw"
  /\ shrink' = [shrink EXCEPT !.drawn = shrink.lines, !.pc = "done"]
  /\ LabelUnchanged

NextLabel == WhileBody \/ WhileExit \/ FillText

SpecLabel == InitLabel /\ [][NextLabel]_vars

\* The callback runs to its end once drawDiagram is called.
SpecLabelFair == SpecLabel /\ WF_vars(NextLabel)

(***************************************************************************)
(* Properties of the generator (checked under SpecGen).                    *)
(***************************************************************************)
Calls == 1..Len(history)
StateOf(h) == history[h].run.state
LogOf(h) == history[h].run.log
HasBranch(h, b) == \E k \in 1..Len(LogOf(h)) : LogOf(h)[k].branch = b

\* C1: two calls of generateDiagram with equal params return equal node
\* sequences and equal connection sequences, whatever was called in between.
C1_Determinism ==
  \A a, b \in Calls :
    history[a].params = history[b].params
      => /\ StateOf(a).nodes = StateOf(b).nodes
         /\ StateOf(a).connections = StateOf(b).connections

\* C1 witness: the same params were generated twice, with connections, and
\* the first call left its generator at a counter other than the seed.
C1_Witness ==
  /\ Len(history) = 2
  /\ history[1].params = history[2].params
  /\ Len(StateOf(2).connections) >= 2
  /\ history[1].run.rng.seed > history[1].params.randomSeed

\* C2: in every returned state the node at position k has id k and the
\* connection at position k has id k (0-based), across all source nodes and
\* mirrored second edges.
C2_IdContiguity ==
  \A h \in Calls :
    /\ Len(StateOf(h).nodes) = history[h].params.nodeCount
    /\ \A k \in 1..Len(StateOf(h).nodes) : StateOf(h).nodes[k].id = k - 1
    /\ \A k \in 1..Len(StateOf(h).connections) : StateOf(h).connections[k].id = k - 1

\* C2 witness: a state with a mirrored second edge followed by edges of a
\* later source node.
C2_Witness ==
  \E h \in Calls :
    \E k \in 1..Len(LogOf(h)) :
      /\ LogOf(h)[k].emitted = 2
      /\ \E m \in (k + 1)..Len(LogOf(h)) :
           LogOf(h)[m].from > LogOf(h)[k].from /\ LogOf(h)[m].emitted >= 1

\* C3: generation never misses the lookup nodes[targetIndex], and every
\* emitted connection's from and to are ids of nodes of the same state.
C3_ReferentialIntegrity ==
  \A h \in Calls :
    /\ ~history[h].run.threw
    /\ \A k \in 1..Len(StateOf(h).connections) :
         LET c == StateOf(h).connections[k]
         IN  /\ \E n \in 1..Len(StateOf(h).nodes) : StateOf(h).nodes[n].id = c.from
             /\ \E n \in 1..Len(StateOf(h).nodes) : StateOf(h).nodes[n].id = c.to

\* C3 witness: one call took the self-loop, forward, backward and random
\* branches and emitted an edge to the last node from the one before it.
C3_Witness ==
  \E h \in Calls :
    /\ HasBranch(h, "self") /\ HasBranch(h, "forward")
    /\ HasBranch(h, "backward") /\ HasBranch(h, "random")
    /\ history[h].params.nodeCount = MaxNodes
    /\ \E k \in 1..Len(StateOf(h).connections) :
         /\ StateOf(h).connections[k].from = MaxNodes - 2
         /\ StateOf(h).connections[k].to = MaxNodes - 1

\* C4 (as claimed): with selfLoopChance = 0 no returned connection has
\* from = to, for every nodeCount >= 1.
C4_NoSelfLoopWhenChanceZero ==
  \A h \in Calls :
    history[h].params.selfLoopChance = 0
      => \A k \in 1..Len(StateOf(h).connections) :
           StateOf(h).connections[k].from # StateOf(h).connections[k].to

NodesOf(h) == StateOf(h).nodes
Fits(h, n) ==
  /\ NodesOf(h)[n].width <= history[h].params.canvasWidth - 2 * margin
  /\ NodesOf(h)[n].height <= history[h].params.canvasHeight - 2 * margin
InsideMargins(h, n) ==
  /\ margin <= NodesOf(h)[n].x
  /\ NodesOf(h)[n].x <= history[h].params.canvasWidth - margin - NodesOf(h)[n].width
  /\ margin <= NodesOf(h)[n].y
  /\ NodesOf(h)[n].y <= history[h].params.canvasHeight - margin - NodesOf(h)[n].height

\* C17 (as claimed): every generated node lies inside the margins,
\* margin <= x <= canvasWidth - margin - width and
\* margin <= y <= canvasHeight - margin - height, whatever its scaled size.
C17_InsideMargins ==
  \A h \in Calls : \A n \in 1..Len(NodesOf(h)) : InsideMargins(h, n)

\* A call whose node is wider than the usable span
C17_Oversized ==
  \E h \in Calls : \E n \in 1..Len(NodesOf(h)) :
    NodesOf(h)[n].width > history[h].params.canvasWidth - 2 * margin

\* What the clamp gives: a node no larger than the usable span lies inside
\* the margins, a larger one sits at the margin and overhangs the far one.
C17_InsideMarginsWhenFits ==
  \A h \in Calls : \A n \in 1..Len(NodesOf(h)) :
    /\ Fits(h, n) => InsideMargins(h, n)
    /\ NodesOf(h)[n].width > history[h].params.canvasWidth - 2 * margin
         => NodesOf(h)[n].x = margin

ConnsOf(h) == StateOf(h).connections
Emitting(h) == { k \in 1..Len(LogOf(h)) : LogOf(h)[k].emitted >= 1 }
Primary(h, k) == ConnsOf(h)[LogOf(h)[k].first]
Second(h, k) == ConnsOf(h)[LogOf(h)[k].first + 1]

\* The draws of candidate k of call h, counted from 1.  The multi-connection
\* draw is the last one, or the third from last when a second edge follows.
DrawOf(h, k, n) == Nth([seed |-> LogOf(h)[k].seed], n - 1)
MultiAt(h, k) == LogOf(h)[k].draws - 2 * (LogOf(h)[k].emitted - 1)
MultiDrawBelow(h, k) == DrawOf(h, k, MultiAt(h, k)) < history[h].params.multiConnectionChance

\* 200 times the point at along/200 of the chord between the two centres
Chord200(a2, b2, along) == 100 * a2 + along * (b2 - a2)

\* s = base - 0.6 * (p - base) up to the rounding of s and p to whole units
MirroredCoord(s, p, base200) ==
  IF p = NaN \/ s = NaN THEN p = NaN /\ s = NaN
  ELSE LET d == 2000 * s + 1200 * p - 16 * base200
       IN  0 - 3200 < d /\ d <= 0

Mirrored(h, k, along) ==
  LET fromNode == NodesOf(h)[Primary(h, k).from + 1]
      toNode == NodesOf(h)[Primary(h, k).to + 1]
      pcp == IF along = 33 THEN Primary(h, k).controlPoint1 ELSE Primary(h, k).controlPoint2
      scp == IF along = 33 THEN Second(h, k).controlPoint1 ELSE Second(h, k).controlPoint2
  IN  /\ MirroredCoord(scp.x, pcp.x,
                       Chord200(2 * fromNode.x + fromNode.width,
                                2 * toNode.x + toNode.width, along))
      /\ MirroredCoord(scp.y, pcp.y,
                       Chord200(2 * fromNode.y + fromNode.height,
                                2 * toNode.y + toNode.height, along))

\* C19: after a primary edge the mirrored second edge is emitted iff the
\* multi-connection draw is below multiConnectionChance and the target
\* differs from the source; it has the primary's from and to, 0.8 times its
\* curve, -0.6 times its perpendicular offset, and dashed/hasArrow from the
\* two draws that follow.
C19_MirroredSecondEdge ==
  \A h \in Calls : \A k \in Emitting(h) :
    /\ LogOf(h)[k].emitted = 2
         <=> (MultiDrawBelow(h, k) /\ Primary(h, k).to # Primary(h, k).from)
    /\ LogOf(h)[k].emitted = 2 =>
         /\ Second(h, k).from = Primary(h, k).from
         /\ Second(h, k).to = Primary(h, k).to
         /\ Second(h, k).id = Primary(h, k).id + 1
         /\ 10 * Second(h, k).curve = 8 * Primary(h, k).curve
         /\ Mirrored(h, k, 33) /\ Mirrored(h, k, 67)
         /\ Second(h, k).dashed
              = (DrawOf(h, k, MultiAt(h, k) + 1) < history[h].params.dashedFrequency)
         /\ Second(h, k).hasArrow
              = (DrawOf(h, k, MultiAt(h, k) + 2) < history[h].params.arrowFrequency)

\* C19 witness: one call with a candidate that emitted a curved primary and
\* its mirrored second edge, and a candidate between two nodes whose
\* multi-connection draw was not below the chance.
C19_Witness ==
  \E h \in Calls : \E k, m \in Emitting(h) :
    /\ LogOf(h)[k].emitted = 2
    /\ Primary(h, k).controlPoint1 # Second(h, k).controlPoint1
    /\ LogOf(h)[m].emitted = 1
    /\ Primary(h, m).to # Primary(h, m).from
    /\ ~MultiDrawBelow(h, m)

SelfLoop(h, k) == Primary(h, k).to = Primary(h, k).from

\* C20 (as claimed): when the primary edge is a self-loop and the
\* multi-connection draw is below multiConnectionChance, the duplicate is
\* still emitted: the candidate leaves two connections with from = to = i.
C20_DuplicateForSelfLoop ==
  \A h \in Calls : \A k \in Emitting(h) :
    (SelfLoop(h, k) /\ MultiDrawBelow(h, k)) =>
      /\ LogOf(h)[k].emitted = 2
      /\ Second(h, k).from = LogOf(h)[k].from
      /\ Second(h, k).to = LogOf(h)[k].from

\* C20 (amended): a candidate whose primary edge is a self-loop emits that
\* edge only, whatever the multi-connection draw, which is still consumed as
\* the candidate's last draw.
C20_NoDuplicateForSelfLoop ==
  \A h \in Calls : \A k \in Emitting(h) :
    SelfLoop(h, k) =>
      /\ LogOf(h)[k].emitted = 1
      /\ Primary(h, k).from = LogOf(h)[k].from
      /\ LogOf(h)[k].branch = "self" => LogOf(h)[k].draws = 7

\* C20 witness: a self-loop candidate whose multi-connection draw was below
\* the chance.
C20_Witness ==
  \E h \in Calls : \E k \in Emitting(h) :
    /\ SelfLoop(h, k)
    /\ LogOf(h)[k].branch = "self"
    /\ MultiDrawBelow(h, k)
    /\ LogOf(h)[k].emitted = 1

ParamsOf(h) == history[h].params

\* The n-th draw (from 1) of the placement of node i of call h
PlacementDraw(h, i, n) == Nth([seed |-> ParamsOf(h).randomSeed + 6 * i], n - 1)

\* Width and height as the fifth and sixth draw of the placement give them
SizedBy(h, i) ==
  LET p == ParamsOf(h)
      node == NodesOf(h)[i + 1]
  IN  /\ node.width =
           (range(PlacementDraw(h, i, 5), p.nodeMinWidth,
                  p.nodeMinWidth
                    + ((p.nodeMaxWidth - p.nodeMinWidth) * p.sizeVariation) \div GridDen)
              * p.nodeScale) \div 10
      /\ node.height =
           (range(PlacementDraw(h, i, 6), p.nodeMinHeight,
                  p.nodeMinHeight
                    + ((p.nodeMaxHeight - p.nodeMinHeight) * p.sizeVariation) \div GridDen)
              * p.nodeScale) \div 10

\* x and y before the clamp, from the first four draws of the placement
PlacedBy(h, i) ==
  LET p == ParamsOf(h)
      node == NodesOf(h)[i + 1]
      spanX == p.canvasWidth - 2 * margin
      spanY == p.canvasHeight - 2 * margin
      x == margin + (spanX * i) \div p.nodeCount
             + Centered(PlacementDraw(h, i, 1), spanX, p.positionJitter)
             + Centered(PlacementDraw(h, i, 3), spanX, p.layoutSpread)
             + ((2 * p.horizontalBias - GridDen) * spanX * 3) \div (2 * GridDen * 10)
      y == margin + spanY \div 2
             + Centered(PlacementDraw(h, i, 2), spanY, p.positionJitter)
             + Centered(PlacementDraw(h, i, 4), spanY, p.layoutSpread)
             + ((2 * p.verticalBias - GridDen) * spanY * 3) \div (2 * GridDen * 10)
  IN  /\ node.x = Max(margin, Min(p.canvasWidth - margin - node.width, x))
      /\ node.y = Max(margin, Min(p.canvasHeight - margin - node.height, y))

\* C25: each node placement consumes exactly 6 draws in the order jitterX,
\* jitterY, spreadX, spreadY, width, height, so connection synthesis starts
\* at randomSeed + 6 * nodeCount; each of the
\* floor(1 + connectionDensity * branchingFactor * 5) candidates of each
\* source node consumes at least one draw, starting where the previous one
\* stopped; a candidate whose first draw exceeds connectionDensity consumes
\* exactly one draw and emits nothing.
C25_DrawCounts ==
  \A h \in Calls :
    /\ \A i \in 0..(Len(NodesOf(h)) - 1) : SizedBy(h, i) /\ PlacedBy(h, i)
    /\ history[h].run.nodeRng.seed = ParamsOf(h).randomSeed + 6 * ParamsOf(h).nodeCount
    /\ Len(LogOf(h)) = ParamsOf(h).nodeCount * ConnectionsFromNode(ParamsOf(h))
    /\ \A k \in 1..Len(LogOf(h)) :
         /\ LogOf(h)[k].from = (k - 1) \div ConnectionsFromNode(ParamsOf(h))
         /\ LogOf(h)[k].seed =
              IF k = 1 THEN ParamsOf(h).randomSeed + 6 * ParamsOf(h).nodeCount
              ELSE LogOf(h)[k - 1].seed + LogOf(h)[k - 1].draws
         /\ LogOf(h)[k].draws >= 1
         /\ DrawOf(h, k, 1) > ParamsOf(h).connectionDensity
              => LogOf(h)[k].draws = 1 /\ LogOf(h)[k].emitted = 0
         /\ DrawOf(h, k, 1) <= ParamsOf(h).connectionDensity => LogOf(h)[k].emitted >= 1
    /\ rng.seed = (IF LogOf(Len(history)) = <<>>
                   THEN history[Len(history)].run.nodeRng.seed
                   ELSE LogOf(Len(history))[Len(LogOf(Len(history)))].seed
                          + LogOf(Len(history))[Len(LogOf(Len(history)))].draws)

\* C25 witness: a call with a nonzero seed and at least two nodes in which a
\* skipped candidate is followed by an emitting one.
C25_Witness ==
  \E h \in Calls : \E k \in 1..(Len(LogOf(h)) - 1) :
    /\ ParamsOf(h).randomSeed > 0 /\ ParamsOf(h).nodeCount >= 2
    /\ LogOf(h)[k].branch = "skip" /\ LogOf(h)[k].draws = 1
    /\ LogOf(h)[k + 1].emitted >= 1

(***************************************************************************)
(* Properties of interpolateStates (checked under SpecInterp).             *)
(***************************************************************************)
Interpolated == interp # <<>>
Result == interp[1]
ContinuousNode(n) == <<n.x, n.y, n.width, n.height>>
ContinuousConn(c) == <<c.curve, c.controlPoint1, c.controlPoint2>>
DiscreteConn(c) == <<c.id, c.from, c.to, c.dashed, c.hasArrow>>
HasNaN(c) == NaN \in {c.controlPoint1.x, c.controlPoint1.y, c.controlPoint2.x, c.controlPoint2.y}

\* a coordinate of B unless either side is NaN
Through(a, b) == IF a = NaN \/ b = NaN THEN NaN ELSE b
PointThrough(pa, pb) == [x |-> Through(pa.x, pb.x), y |-> Through(pa.y, pb.y)]

C6_SourceAtZero ==
  (Interpolated /\ prog = 0) =>
    /\ \A k \in 1..Len(stA.nodes) :
         ContinuousNode(Result.nodes[k]) = ContinuousNode(stA.nodes[k])
    /\ \A k \in 1..Len(stA.connections) :
         ContinuousConn(Result.connections[k]) = ContinuousConn(stA.connections[k])

\* C7 (as claimed): the result has max(|A|, |B|) elements per list, and from
\* the shorter list's length on the missing side is that list's last
\* element: beyond A the nodes interpolate from A's last node toward B's
\* node i, beyond B from A's node i toward B's last node.
C7_ClampToOwnLast ==
  Interpolated =>
    /\ Len(Result.nodes) = Max(Len(stA.nodes), Len(stB.nodes))
    /\ Len(Result.connections) = Max(Len(stA.connections), Len(stB.connections))
    /\ Len(stA.nodes) >= 1 =>
         \A k \in (Len(stA.nodes) + 1)..Len(stB.nodes) :
           ContinuousNode(Result.nodes[k]) =
             ContinuousNode(InterpNode(stA.nodes[Len(stA.nodes)], stB.nodes[k], prog))
    /\ Len(stB.nodes) >= 1 =>
         \A k \in (Len(stB.nodes) + 1)..Len(stA.nodes) :
           ContinuousNode(Result.nodes[k]) =
             ContinuousNode(InterpNode(stA.nodes[k], stB.nodes[Len(stB.nodes)], prog))

(***************************************************************************)
(* Properties of the animation loop (checked under SpecAnim).              *)
(***************************************************************************)
TickStep == lastStep'.kind = "tick"

C9_CommitThenIdle ==
  [][ /\ (TickStep /\ progressRef' = PDen) =>
           /\ currentState' = lastStep'.targetState
           /\ observer' = lastStep'.targetState.state
      /\ (TickStep /\ progressRef' < PDen) => currentState' = currentState
      /\ ( /\ lastStep # <<>> /\ lastStep.kind = "tick"
           /\ progressRef = PDen
           /\ currentState = targetState
           /\ params' = params ) => frames' = <<>> ]_vars

\* C10 (as claimed): a parameter change sets target to a newly generated
\* state, progress to 0 and leaves current alone; afterwards every tick
\* interpolates from the current state to the newest target, and a commit
\* installs the newest target.
C10_LastWriterWins ==
  [][ /\ (Mounted /\ params' # params) =>
           /\ targetState'.state = generateDiagram(params'.value)
           /\ targetState'.ref # targetState.ref
           /\ progressRef' = 0
           /\ currentState' = currentState
      /\ TickStep =>
           /\ lastStep'.currentState = currentState
           /\ lastStep'.targetState = targetState
      /\ (TickStep /\ currentState' # currentState) => currentState' = targetState ]_vars

\* C11: while the params have animationSpeed 0, progress is 0 and stays 0,
\* current is not replaced, and every tick leaves a frame requested for the
\* same current, target and params.
C11_ZeroSpeedNeverCommits ==
  [][ (Mounted /\ params.value.animationSpeed = 0 /\ params' = params) =>
        /\ progressRef = 0 /\ progressRef' = 0
        /\ currentState' = currentState
        /\ TickStep =>
             /\ Len(frames') = 1
             /\ frames'[1].closure = Head(frames).closure ]_vars

\* C11 witness: after a parameter change to speed 0, a tick has run toward
\* a target that is not current, and a frame is requested again.
C11_Witness ==
  /\ Mounted /\ params.value.animationSpeed = 0
  /\ nextRef > 4
  /\ lastStep.kind = "tick"
  /\ lastStep.targetState = targetState
  /\ currentState # targetState
  /\ progressRef = 0
  /\ frames # <<>>

\* C12 (as claimed): at most one frame is requested at any time, a tick
\* requests the next frame only when progress < 1, and every tick runs with
\* the current/target pair the component holds, never with a replaced one.
C12_OneFrameFreshPair ==
  [][ /\ Len(frames') <= 1
      /\ (TickStep /\ frames' # <<>>) => progressRef' < PDen
      /\ TickStep =>
           /\ Head(frames).closure.currentState = currentState
           /\ Head(frames).closure.targetState = targetState ]_vars

(***************************************************************************)
(* Properties of the renderers (checked under SpecRender).                 *)
(***************************************************************************)
Rendered == raster # <<>> /\ vector # <<>>
Backends == <<raster, vector>>
OpsOf(ops, kind) == SelectSeq(ops, LAMBDA op : op.kind = kind)
ConnOps(ops, k) == SelectSeq(ops, LAMBDA op : op.kind \in {"curve", "arrow"} /\ op.conn = k)
HasNode(id) == \E n \in 1..Len(scene.nodes) : scene.nodes[n].id = id
NodeOf(id) == scene.nodes[CHOOSE n \in 1..Len(scene.nodes) : scene.nodes[n].id = id]
EndAbsent(k) == ~HasNode(scene.connections[k].from) \/ ~HasNode(scene.connections[k].to)
CentresCoincide(k) ==
  /\ ~EndAbsent(k)
  /\ LET a == NodeOf(scene.connections[k].from)
         b == NodeOf(scene.connections[k].to)
     IN  2 * a.x + a.width = 2 * b.x + b.width /\ 2 * a.y + a.height = 2 * b.y + b.height
Skipped(k) == EndAbsent(k) \/ CentresCoincide(k)

\* C13: in both backends a connection with an absent end or with coincident
\* centres yields no curve and no arrow, every other connection yields
\* exactly one curve, and every node yields exactly one rectangle.
C13_SkipAndGoOn ==
  Rendered =>
    \A b \in 1..2 :
      /\ \A k \in 1..Len(scene.connections) :
           IF Skipped(k) THEN ConnOps(Backends[b], k) = <<>>
           ELSE Len(SelectSeq(ConnOps(Backends[b], k), LAMBDA op : op.kind = "curve")) = 1
      /\ \A n \in 1..Len(scene.nodes) :
           Len(SelectSeq(OpsOf(Backends[b], "rect"), LAMBDA op : op.node = n)) = 1

\* C13 witness: a pass over a self-loop, then a drawable connection, then a
\* connection to an absent node, with two nodes.
C13_Witness ==
  /\ Rendered
  /\ Len(scene.connections) = 3 /\ Len(scene.nodes) = 2
  /\ CentresCoincide(1) /\ ~Skipped(2) /\ EndAbsent(3)

\* The operation of the given kind that backend b produced for connection k
OpFor(b, kind, k) ==
  SelectSeq(Backends[b], LAMBDA op : op.kind = kind /\ op.conn = k)[1]
FromNodeOf(k) == NodeOf(scene.connections[k].from)
ToNodeOf(k) == NodeOf(scene.connections[k].to)
TrimmedStart(k) == getConnectionPoint(FromNodeOf(k), ToNodeOf(k), sceneParams.arrowGap)
TrimmedEnd(k) == getConnectionPoint(ToNodeOf(k), FromNodeOf(k), sceneParams.arrowGap)
RescaledOf(k) ==
  RescaledControlPoints(scene.connections[k], FromNodeOf(k), ToNodeOf(k), sceneParams.arrowGap)
StoredOf(k) ==
  [cp1 |-> DblPoint(scene.connections[k].controlPoint1),
   cp2 |-> DblPoint(scene.connections[k].controlPoint2)]

\* C14: in both backends every drawn connection is stroked from the trimmed
\* start to the trimmed end through the rescaled control points, so the two
\* backends stroke the same curve.
C14_BothStrokeRescaled ==
  Rendered =>
    \A k \in 1..Len(scene.connections) :
      ~Skipped(k) =>
        /\ \A b \in 1..2 :
             /\ OpFor(b, "curve", k).from = TrimmedStart(k)
             /\ OpFor(b, "curve", k).to = TrimmedEnd(k)
             /\ OpFor(b, "curve", k).cp1 = RescaledOf(k).cp1
             /\ OpFor(b, "curve", k).cp2 = RescaledOf(k).cp2
        /\ OpFor(1, "curve", k) = OpFor(2, "curve", k)

\* What the backends do: the vector backend strokes the rescaled control
\* points, the raster backend the stored ones.
C14_VectorRescaledRasterStored ==
  Rendered =>
    \A k \in 1..Len(scene.connections) :
      ~Skipped(k) =>
        /\ OpFor(2, "curve", k).cp1 = RescaledOf(k).cp1
        /\ OpFor(2, "curve", k).cp2 = RescaledOf(k).cp2
        /\ OpFor(1, "curve", k).cp1 = StoredOf(k).cp1
        /\ OpFor(1, "curve", k).cp2 = StoredOf(k).cp2

\* C15: in both backends the arrowhead of a connection with hasArrow sits at
\* the point and tangent at t = 0.5 of the bezier through the stored,
\* non-rescaled control points, so both backends place the same arrowhead.
C15_BothArrowsOnStored ==
  Rendered =>
    \A k \in 1..Len(scene.connections) :
      (~Skipped(k) /\ scene.connections[k].hasArrow) =>
        /\ \A b \in 1..2 :
             /\ OpFor(b, "arrow", k).at =
                  getPointOnBezier(TrimmedStart(k), StoredOf(k).cp1, StoredOf(k).cp2,
                                   TrimmedEnd(k), arrowPos)
             /\ OpFor(b, "arrow", k).tangent =
                  getTangentOnBezier(TrimmedStart(k), StoredOf(k).cp1, StoredOf(k).cp2,
                                     TrimmedEnd(k), arrowPos)
        /\ OpFor(1, "arrow", k) = OpFor(2, "arrow", k)

\* What the backends do: the raster arrowhead sits on the stored bezier, the
\* vector arrowhead on the rescaled one.
C15_RasterStoredVectorRescaled ==
  Rendered =>
    \A k \in 1..Len(scene.connections) :
      (~Skipped(k) /\ scene.connections[k].hasArrow) =>
        /\ OpFor(1, "arrow", k).at =
             getPointOnBezier(TrimmedStart(k), StoredOf(k).cp1, StoredOf(k).cp2,
                              TrimmedEnd(k), arrowPos)
        /\ OpFor(2, "arrow", k).at =
             getPointOnBezier(TrimmedStart(k), RescaledOf(k).cp1, RescaledOf(k).cp2,
                              TrimmedEnd(k), arrowPos)
        /\ OpFor(1, "arrow", k).tangent =
             getTangentOnBezier(TrimmedStart(k), StoredOf(k).cp1, StoredOf(k).cp2,
                                TrimmedEnd(k), arrowPos)
        /\ OpFor(2, "arrow", k).tangent =
             getTangentOnBezier(TrimmedStart(k), RescaledOf(k).cp1, RescaledOf(k).cp2,
                                TrimmedEnd(k), arrowPos)

ConnKinds == {"curve", "arrow"}
NodeKinds == {"rect", "text"}

\* The order of one backend's output: background, connection elements in
\* stored order with each arrow right after its curve, node elements in stored
\* order with each text right after its rectangle.
Ordered(ops) ==
  /\ ops[1].kind = "background"
  /\ \A i \in 2..Len(ops) : ops[i].kind \in ConnKinds \cup NodeKinds
  /\ \A i, j \in 2..Len(ops) :
       i < j =>
         /\ ops[i].kind \in NodeKinds => ops[j].kind \in NodeKinds
         /\ (ops[i].kind = "curve" /\ ops[j].kind = "curve") => ops[i].conn < ops[j].conn
         /\ (ops[i].kind = "rect" /\ ops[j].kind = "rect") => ops[i].node < ops[j].node
  /\ \A i \in 2..Len(ops) :
       /\ ops[i].kind = "arrow" =>
            ops[i - 1].kind = "curve" /\ ops[i - 1].conn = ops[i].conn
       /\ ops[i].kind = "text" =>
            ops[i - 1].kind = "rect" /\ ops[i - 1].node = ops[i].node

\* C16: in both backends the background comes first, then all connections in
\* stored order (arrowhead directly after its curve), then all nodes in stored
\* order (label directly after its rectangle); no node element precedes a
\* connection element.
C16_BackgroundConnectionsNodes ==
  Rendered => Ordered(raster) /\ Ordered(vector)

\* C16 witness: both backends rendered two connections, one with an
\* arrowhead, and two nodes, one with a label.
C16_Witness ==
  /\ Rendered
  /\ \A b \in 1..2 :
       /\ Len(OpsOf(Backends[b], "curve")) >= 2
       /\ Len(OpsOf(Backends[b], "arrow")) >= 1
       /\ Len(OpsOf(Backends[b], "rect")) >= 2
       /\ Len(OpsOf(Backends[b], "text")) >= 1

Entities == {Amp, Lt, Gt, Quot, Apos}
CharOf(ent) ==
  CASE ent = Amp -> "&" [] ent = Lt -> "<" [] ent = Gt -> ">"
    [] ent = Quot -> "\"" [] ent = Apos -> "'"
StartsAt(str, i, ent) ==
  /\ i + Len(ent) - 1 <= Len(str)
  /\ SubSeq(str, i, i + Len(ent) - 1) = ent

\* One left-to-right pass that turns each of the five entities back into its
\* character.
RECURSIVE Decode(_)
Decode(str) ==
  IF str = <<>> THEN <<>>
  ELSE IF \E ent \in Entities : StartsAt(str, 1, ent)
  THEN LET ent == CHOOSE e \in Entities : StartsAt(str, 1, e)
       IN  <<CharOf(ent)>> \o Decode(SubSeq(str, Len(ent) + 1, Len(str)))
  ELSE <<Head(str)>> \o Decode(Tail(str))

Blank(label) == label = Undefined \/ \A i \in 1..Len(label) : label[i] = " "
TextsOf(n) == SelectSeq(vector, LAMBDA op : op.kind = "text" /\ op.node = n)
WellEscaped(text, label) ==
  /\ \A i \in 1..Len(text) :
       /\ text[i] \notin {"<", ">", "\"", "'"}
       /\ text[i] = "&" => \E ent \in Entities : StartsAt(text, i, ent)
  /\ Decode(text) = label

\* C18: the vector backend emits exactly one text element per node with a
\* non-blank label and none for the others; the emitted text contains none of
\* < > " ', every & in it starts one of the five entities, and decoding the
\* entities gives back the label.
C18_OneEscapedTextPerLabel ==
  vector # <<>> =>
    \A n \in 1..Len(scene.nodes) :
      IF Blank(scene.nodes[n].label) THEN TextsOf(n) = <<>>
      ELSE /\ Len(TextsOf(n)) = 1
           /\ WellEscaped(TextsOf(n)[1].text, scene.nodes[n].label)

\* C18 witness: an exported label holding both & and another escaped
\* character, next to a node without a text element.
C18_Witness ==
  /\ vector # <<>>
  /\ \E n, m \in 1..Len(scene.nodes) :
       /\ "&" \in { scene.nodes[n].label[i] : i \in 1..Len(scene.nodes[n].label) }
       /\ { scene.nodes[n].label[i] : i \in 1..Len(scene.nodes[n].label) }
            \cap {"<", ">", "\"", "'"} # {}
       /\ Len(TextsOf(n)) = 1
       /\ Blank(scene.nodes[m].label)

\* pt, in half units, lies on the outline of node n
OnBoundary(pt, n) ==
  \/ /\ pt.x \in {2 * n.x, 2 * (n.x + n.width)}
     /\ 2 * n.y <= pt.y /\ pt.y <= 2 * (n.y + n.height)
  \/ /\ pt.y \in {2 * n.y, 2 * (n.y + n.height)}
     /\ 2 * n.x <= pt.x /\ pt.x <= 2 * (n.x + n.width)

\* pt lies on the ray from the centre of n toward the centre of m, up to the
\* rounding of one coordinate to a whole half unit
OnRay(pt, n, m) ==
  LET dx == Centre(m).x - Centre(n).x
      dy == Centre(m).y - Centre(n).y
      px == pt.x - Centre(n).x
      py == pt.y - Centre(n).y
  IN  /\ Abs(px * dy - py * dx) <= Abs(dx) + Abs(dy)
      /\ px * dx + py * dy > 0

GapFree == sceneParams.arrowGap = 0

\* C24: the point getConnectionPoint computes before adding the gap lies on
\* the outline of the source rectangle and on the ray from its centre toward
\* the target's centre, for every direction of the target, in both backends
\* alike.  (With arrowGap = 0 the returned point is that point.)
C24_EdgePointOnRay ==
  (Rendered /\ GapFree) =>
    \A k \in 1..Len(scene.connections) :
      ~Skipped(k) =>
        /\ \A b \in 1..2 :
             /\ OnBoundary(OpFor(b, "curve", k).from, FromNodeOf(k))
             /\ OnRay(OpFor(b, "curve", k).from, FromNodeOf(k), ToNodeOf(k))
             /\ OnBoundary(OpFor(b, "curve", k).to, ToNodeOf(k))
             /\ OnRay(OpFor(b, "curve", k).to, ToNodeOf(k), FromNodeOf(k))
        /\ OpFor(1, "curve", k).from = OpFor(2, "curve", k).from
        /\ OpFor(1, "curve", k).to = OpFor(2, "curve", k).to

\* What the two copies do: the point is on the outline and the same in both
\* backends; it is on the ray when the target lies to the right on the
\* left/right branch or below on the top/bottom branch, or straight along an
\* axis.
TowardRightOrBelow(n, m) ==
  LET dx == Centre(m).x - Centre(n).x
      dy == Centre(m).y - Centre(n).y
  IN  \/ dx = 0 \/ dy = 0
      \/ IF Abs(dx) * n.height > Abs(dy) * n.width THEN dx > 0 ELSE dy > 0

C24_EdgePointOnOutline ==
  (Rendered /\ GapFree) =>
    \A k \in 1..Len(scene.connections) :
      ~Skipped(k) =>
        /\ \A b \in 1..2 :
             /\ OnBoundary(OpFor(b, "curve", k).from, FromNodeOf(k))
             /\ OnBoundary(OpFor(b, "curve", k).to, ToNodeOf(k))
             /\ TowardRightOrBelow(FromNodeOf(k), ToNodeOf(k))
                  => OnRay(OpFor(b, "curve", k).from, FromNodeOf(k), ToNodeOf(k))
             /\ TowardRightOrBelow(ToNodeOf(k), FromNodeOf(k))
                  => OnRay(OpFor(b, "curve", k).to, ToNodeOf(k), FromNodeOf(k))
        /\ OpFor(1, "curve", k).from = OpFor(2, "curve", k).from
        /\ OpFor(1, "curve", k).to = OpFor(2, "curve", k).to

(***************************************************************************)
(* Properties of easeInOutCubic (checked under SpecAnim, on the eased      *)
(* progress of each tick).                                                 *)
(***************************************************************************)
Ticked == lastStep # <<>> /\ lastStep.kind = "tick"

\* C22: easeInOutCubic(0) = 0, easeInOutCubic(1) = 1, both branches meet in
\* 0.5 at t = 0.5, and easeInOutCubic is non-decreasing on [0,1], so the
\* eased progress of a tick stays in [0,1].
C22_EasingMonotone ==
  Ticked =>
    /\ lastStep.eased \in 0..EDen
    /\ progressRef = 0 => lastStep.eased = 0
    /\ progressRef = PDen => lastStep.eased = EDen
    /\ 2 * progressRef = PDen => 2 * lastStep.eased = EDen
    /\ \A k \in 0..PDen :
         /\ k <= progressRef => easeInOutCubic(k) <= lastStep.eased
         /\ k >= progressRef => easeInOutCubic(k) >= lastStep.eased

\* C22 witness: a tick that took the progress from the first branch of the
\* easing to the second, short of 1.
C22_Witness ==
  /\ Ticked
  /\ 2 * lastStep.before < PDen /\ lastStep.before > 0
  /\ 2 * progressRef >= PDen /\ progressRef < PDen
  /\ lastStep.eased > easeInOutCubic(lastStep.before)

(***************************************************************************)
(* Properties of the export (checked under SpecApp).                       *)
(***************************************************************************)
ExportStep == lastStep'.kind = "export" /\ <<downloads, errors>>' # <<downloads, errors>>
ProgramState == <<params, currentState, targetState, rendered, progressRef, frames,
                  observer, canvas, panel>>

\* C23 (as claimed): an export while the canvas has delivered no state yet
\* produces no document, reports the failure and changes nothing else; an
\* export after at least one tick produces the document of the most recently
\* delivered state.
C23_ExportsLatestDelivered ==
  [][ ExportStep =>
        /\ ProgramState' = ProgramState
        /\ IF observer = <<>>
           THEN downloads' = downloads /\ errors' = errors + 1
           ELSE /\ errors' = errors
                /\ downloads' = Append(downloads,
                                       generateSvgFromDiagramState(observer, params.value))
    ]_vars

\* What downloadSVG does: the same for the state ControlPanel's latest render
\* received, which is null or a delivered state, and the latest delivered
\* one once App has rendered.
C23_ExportsStateOfLatestRender ==
  [][ ExportStep =>
        /\ ProgramState' = ProgramState
        /\ IF panel = <<>>
           THEN downloads' = downloads /\ errors' = errors + 1
           ELSE /\ errors' = errors
                /\ downloads' = Append(downloads,
                                       generateSvgFromDiagramState(panel, params.value))
    ]_vars

(***************************************************************************)
(* Properties of interpolateStates on generated states (checked under      *)
(* SpecInterp).                                                            *)
(***************************************************************************)
\* What generateDiagram guarantees of a state: at least one node, node and
\* connection ids equal to their positions, connection ends among the nodes.
Generated(state) ==
  /\ Len(state.nodes) >= 1
  /\ \A n \in 1..Len(state.nodes) : state.nodes[n].id = n - 1
  /\ \A k \in 1..Len(state.connections) :
       /\ state.connections[k].id = k - 1
       /\ state.connections[k].from \in 0..(Len(state.nodes) - 1)
       /\ state.connections[k].to \in 0..(Len(state.nodes) - 1)

NodeIds(state) == { state.nodes[n].id : n \in 1..Len(state.nodes) }

\* C28: for two generated states and any progress, interpolateStates reads no
\* missing element, its node ids are 0..max(|A.nodes|, |B.nodes|) - 1 in
\* order, its connection ids are pairwise distinct, and each connection's
\* from and to is the id of one of its nodes.
C28_InterpolatedWellFormed ==
  (Generated(stA) /\ Generated(stB)) =>
    /\ ~ReadsMissing(stA.nodes, stB.nodes)
    /\ ~ReadsMissing(stA.connections, stB.connections)
    /\ Interpolated =>
         /\ Len(Result.nodes) = Max(Len(stA.nodes), Len(stB.nodes))
         /\ \A n \in 1..Len(Result.nodes) : Result.nodes[n].id = n - 1
         /\ Len(Result.connections) = Max(Len(stA.connections), Len(stB.connections))
         /\ \A k, m \in 1..Len(Result.connections) :
              k # m => Result.connections[k].id # Result.connections[m].id
         /\ \A k \in 1..Len(Result.connections) :
              /\ Result.connections[k].from \in NodeIds(Result)
              /\ Result.connections[k].to \in NodeIds(Result)

\* C28 witness: an interpolation from a generated state toward one with
\* fewer nodes and no connection.
C28_Witness ==
  /\ Interpolated
  /\ Generated(stA) /\ Generated(stB)
  /\ Len(stB.nodes) < Len(stA.nodes)
  /\ stB.connections = <<>> /\ stA.connections # <<>>

(***************************************************************************)
(* Further properties of the renderers (checked under SpecRender).         *)
(***************************************************************************)
IsSelfLoop(k) == scene.connections[k].from = scene.connections[k].to
DistinctCentres ==
  { k \in 1..Len(scene.connections) : ~EndAbsent(k) /\ ~CentresCoincide(k) }

\* C29: a connection with from = to is drawn by neither backend, no curve
\* and no arrowhead, and each backend draws as many curves as there are
\* connections whose two ends exist and have distinct centres.
C29_SelfLoopNeverDrawn ==
  Rendered =>
    \A b \in 1..2 :
      /\ \A k \in 1..Len(scene.connections) :
           IsSelfLoop(k) => ConnOps(Backends[b], k) = <<>>
      /\ Len(OpsOf(Backends[b], "curve")) = Cardinality(DistinctCentres)

\* C29 witness: a rendered scene with a self-loop on a present node, a
\* connection between two nodes of one centre and a drawn connection.
C29_Witness ==
  /\ Rendered
  /\ \E k, m, d \in 1..Len(scene.connections) :
       /\ IsSelfLoop(k) /\ ~EndAbsent(k)
       /\ ~IsSelfLoop(m) /\ CentresCoincide(m)
       /\ d \in DistinctCentres

\* C27 (as claimed): in the raster backend the line dash is empty whenever a
\* node outline is stroked, whatever the connection list.
C27_SolidNodeOutlines ==
  raster # <<>> =>
    \A i \in 1..Len(raster) : raster[i].kind = "rect" => raster[i].dash = <<>>

\* What drawDiagram does: the outlines are solid unless the last connection
\* with both ends present is dashed and has coincident centres, or there is
\* none and the context came in dashed.
LastPresent ==
  { k \in 1..Len(scene.connections) :
      /\ ~EndAbsent(k)
      /\ \A m \in (k + 1)..Len(scene.connections) : EndAbsent(m) }

C27_SolidUnlessLastSkippedDashed ==
  raster # <<>> =>
    \A i \in 1..Len(raster) :
      (raster[i].kind = "rect" /\ raster[i].dash # <<>>) =>
        \/ \E k \in LastPresent : CentresCoincide(k) /\ scene.connections[k].dashed
        \/ LastPresent = {}

RasterTextsOf(n) == SelectSeq(raster, LAMBDA op : op.kind = "text" /\ op.node = n)

\* C26 (as claimed): the raster backend draws the label of every node whose
\* label is non-blank, whatever the node's size.
C26_EveryLabelDrawn ==
  raster # <<>> =>
    \A n \in 1..Len(scene.nodes) :
      ~Blank(scene.nodes[n].label) => Len(RasterTextsOf(n)) = 1

\* What drawDiagram does: the label is drawn exactly when it is non-blank
\* and the starting font size 0.5 * min(width, height) exceeds 8.
C26_LabelDrawnWhenFontAboveMinimum ==
  raster # <<>> =>
    \A n \in 1..Len(scene.nodes) :
      IF ~Blank(scene.nodes[n].label)
           /\ Min(scene.nodes[n].width, scene.nodes[n].height) > 16
      THEN Len(RasterTextsOf(n)) = 1
      ELSE RasterTextsOf(n) = <<>>

(***************************************************************************)
(* Properties of the label autoshrink loop (checked under SpecLabelFair).  *)
(***************************************************************************)
\* ceil(baseFontSize - 8) for baseFontSize = 0.5 * min(width, height), and 0
\* when baseFontSize <= 8
MostIterations ==
  IF Min(shrink.width, shrink.height) <= 2 * minimumFontSize THEN 0
  ELSE (Min(shrink.width, shrink.height) - 2 * minimumFontSize + 1) \div 2

\* C21: the autoshrink loop terminates for every label and node size: each
\* iteration that does not fit lowers the font size by exactly 1, the loop
\* is left once the font size is not above 8, and it runs at most
\* ceil(baseFontSize - 8) times, zero times when baseFontSize <= 8.
C21_AutoshrinkTerminates ==
  /\ [][ /\ (shrink'.iterations # shrink.iterations /\ shrink'.pc = "while")
              => shrink'.fontSize = shrink.fontSize - 2
         /\ shrink'.iterations # shrink.iterations
              => /\ shrink'.iterations = shrink.iterations + 1
                 /\ shrink.fontSize > 2 * minimumFontSize ]_vars
  /\ [](shrink.iterations <= MostIterations)
  /\ []((shrink.pc = "while" /\ shrink.fontSize <= 2 * minimumFontSize)
          => shrink.iterations = MostIterations \/ MostIterations = 0)
  /\ <>(shrink.pc = "done")

\* C21 witness: a loop that shrank the font as often as it can, left at the
\* minimum with a wrapped label.
C21_Witness ==
  /\ shrink.pc = "done"
  /\ shrink.iterations = MostIterations /\ MostIterations >= 3
  /\ shrink.fontSize <= 2 * minimumFontSize
  /\ Len(shrink.drawn) >= 2

====
